---- MODULE Spec2Model ----
(***************************************************************************)
(* A model of the DCA backtest core: the backtest engine                  *)
(* (core/backtest_engine.py), the metrics calculator (core/metrics.py),   *)
(* the strategies (strategies/*.py) and the robustness harness            *)
(* (core/robustness.py) with the sensitivity sweep (core/sensitivity.py). *)
(*                                                                         *)
(* Numbers.  The program computes in binary floating point.  The model    *)
(* computes the same expressions in exact rational arithmetic (pairs      *)
(* <<n, d>> in lowest terms, d > 0) and keeps the IEEE special values the *)
(* program can produce (NaN, infinity) as separate kinds of metric value. *)
(* Results of functions that leave the rationals (standard deviation,     *)
(* fractional powers) are kept by their class: exactly zero, finite       *)
(* positive, finite negative.                                              *)
(*                                                                         *)
(* Dates.  A date is a day number.  Mondays are the multiples of           *)
(* DaysPerWeek; the model calendar has months of DaysPerMonth days, so     *)
(* month starts are the multiples of DaysPerMonth.                         *)
(***************************************************************************)
EXTENDS Integers, Sequences, FiniteSets, TLC

(***************************************************************************)
(* Optional values: <<>> is None, <<x>> is x.                              *)
(***************************************************************************)
None == <<>>
Some(x) == <<x>>
IsNone(o) == o = <<>>
Get(o) == o[1]

SetMin(S) == CHOOSE x \in S : \A y \in S : x <= y
SetMax(S) == CHOOSE x \in S : \A y \in S : x >= y

RECURSIVE SortedSeq(_)
\* The elements of a finite set of integers in ascending order
\* (DataFrame.sort_index on the dates).
SortedSeq(S) == IF S = {} THEN <<>> ELSE <<SetMin(S)>> \o SortedSeq(S \ {SetMin(S)})

(***************************************************************************)
(* Exact rationals.                                                        *)
(***************************************************************************)
Abs(x) == IF x < 0 THEN -x ELSE x

RECURSIVE GCD(_, _)
GCD(a, b) == IF b = 0 THEN a ELSE GCD(b, a % b)

\* n/d in lowest terms with a positive denominator (d # 0).
R(n, d) ==
    LET s == IF d < 0 THEN -1 ELSE 1
        g == GCD(Abs(n), Abs(d))
    IN  <<(s * n) \div g, (s * d) \div g>>

RInt(n) == <<n, 1>>
RZero == <<0, 1>>
ROne == <<1, 1>>
RAdd(a, b) == R(a[1] * b[2] + b[1] * a[2], a[2] * b[2])
RSub(a, b) == R(a[1] * b[2] - b[1] * a[2], a[2] * b[2])
RMul(a, b) == R(a[1] * b[1], a[2] * b[2])
\* b # 0
RDiv(a, b) == R(a[1] * b[2], a[2] * b[1])
RLt(a, b) == a[1] * b[2] < b[1] * a[2]
RLe(a, b) == a[1] * b[2] <= b[1] * a[2]
RGt(a, b) == RLt(b, a)
RGe(a, b) == RLe(b, a)
RIsZero(a) == a[1] = 0
RPos(a) == a[1] > 0
RAbs(a) == <<Abs(a[1]), a[2]>>
RHundred == <<100, 1>>

(***************************************************************************)
(* The model calendar and the resampling rules of FREQUENCY_MAP.           *)
(***************************************************************************)
DaysPerWeek == 7
DaysPerMonth == 30
MonthsPerQuarter == 3
MonthsPerYear == 12

Frequencies == {"W", "M", "Q"}

\* The label pandas gives the resampling bin of day d.  'W-MON': weekly bins
\* closed and labelled on the right, ending on a Monday.  'MS', 'QS': bins
\* closed and labelled on the left, starting at the month / quarter start.
\* An unknown frequency falls back to 'MS' (FREQUENCY_MAP.get(frequency, 'MS')).
BinLabel(frequency, d) ==
    CASE frequency = "W" -> ((d + DaysPerWeek - 1) \div DaysPerWeek) * DaysPerWeek
      [] frequency = "Q" -> (d \div (DaysPerMonth * MonthsPerQuarter))
                                * (DaysPerMonth * MonthsPerQuarter)
      [] OTHER -> (d \div DaysPerMonth) * DaysPerMonth

YearOf(d) == d \div (DaysPerMonth * MonthsPerYear)

\* data[data.index >= start_date], data[data.index <= end_date]; a price
\* series is a function from its trading days to the close of the day.
FilterRange(data, start_date, end_date) ==
    LET keep == {d \in DOMAIN data :
                    /\ (IsNone(start_date) \/ d >= Get(start_date))
                    /\ (IsNone(end_date) \/ d <= Get(end_date))}
    IN  [d \in keep |-> data[d]]

\* data['Close'].resample(rule).first().dropna(): one entry per bin that
\* holds data, dated with the bin's label and priced at the first close of
\* the bin, in ascending order of the labels.
InvestmentDates(data, frequency) ==
    LET labels == {BinLabel(frequency, d) : d \in DOMAIN data}
        first(l) == SetMin({d \in DOMAIN data : BinLabel(frequency, d) = l})
        order == SortedSeq(labels)
    IN  [i \in 1..Len(order) |-> [date |-> order[i], price |-> data[first(order[i])]]]

\* data[data.index <= invest_date]
Historical(data, invest_date) ==
    [d \in {x \in DOMAIN data : x <= invest_date} |-> data[d]]

(***************************************************************************)
(* Strategies.  A strategy instance is a record of its kind and parameter *)
(* mapping; its private running state (profit taking only) is kept apart. *)
(* A decision carries the multiplier and the sell percentage; raised marks *)
(* a decide call that raised instead of returning.                         *)
(***************************************************************************)
Decision(m, s) == [investment_multiplier |-> m, sell_percentage |-> s, raised |-> FALSE]
Raised == [investment_multiplier |-> RZero, sell_percentage |-> RZero, raised |-> TRUE]
NeutralDecision == Decision(ROne, RZero)

\* float('inf') is None here; a finite counter n is <<n>>.
Infinity == None
Increment(p) == IF IsNone(p) THEN Infinity ELSE Some(Get(p) + 1)
AtLeast(p, n) == IsNone(p) \/ Get(p) >= n

\* DCAProfitTakingStrategy.__init__ and reset(): no sell yet.
FreshState == [last_sell_date |-> None, periods_since_sell |-> Infinity]

\* A reset that leaves the private fields as the calls before it left them.
ResetKeepingState(state) == state

\* DCAProfitTakingStrategy.reset: both private fields are set anew.
Reset(state) ==
    [state EXCEPT !.last_sell_date = None, !.periods_since_sell = Infinity]

ProfitTakingDefaults ==
    [profit_threshold |-> <<3, 10>>, sell_percentage |-> <<3, 10>>, cooldown_periods |-> 6]

PureStrategy == [kind |-> "pure", params |-> [x \in {} |-> 0]]
ProfitTakingStrategy(params) == [kind |-> "profit", params |-> params]
\* Any other BaseStrategy subclass: one that returns the same decision every
\* period, and one whose calculate_investment raises.
ConstantStrategy(m, s) ==
    [kind |-> "constant", params |-> [multiplier |-> m, sell |-> s]]
RaisingStrategy == [kind |-> "raising", params |-> [x \in {} |-> 0]]

\* The counter after the cooldown tracking of one call.
TrackCooldown(state) ==
    IF ~IsNone(state.last_sell_date)
    THEN Increment(state.periods_since_sell)
    ELSE Infinity

\* A sell that records its date and leaves the counter as it was.
StateAfterSellNoReset(current_date) ==
    [last_sell_date |-> Some(current_date), periods_since_sell |-> Infinity]

\* The private state a sell leaves behind.
StateAfterSell(current_date) ==
    [last_sell_date |-> Some(current_date), periods_since_sell |-> Some(0)]

\* The first half of DCAProfitTakingStrategy.calculate_investment: the
\* private state once the cooldown is tracked.
ProfitTakingTrack(state) ==
    [last_sell_date |-> state.last_sell_date, periods_since_sell |-> TrackCooldown(state)]

\* The second half: the should_sell test on the counter as it stands, the
\* decision and the private state after the call.
ProfitTakingCheck(params, state, current_date, portfolio_state) ==
    LET threshold == params.profit_threshold
        sell_pct == params.sell_percentage
        cooldown == params.cooldown_periods
        cum_return == RDiv(portfolio_state.cumulative_return, RHundred)
        should_sell == /\ RGe(cum_return, threshold)
                       /\ AtLeast(state.periods_since_sell, cooldown)
                       /\ RPos(portfolio_state.total_shares)
    IN  IF should_sell
        THEN [decision |-> Decision(ROne, sell_pct),
              state |-> StateAfterSell(current_date)]
        ELSE [decision |-> Decision(ROne, RZero), state |-> state]

\* DCAProfitTakingStrategy.calculate_investment, run without interruption.
ProfitTakingDecide(params, state, current_date, portfolio_state) ==
    ProfitTakingCheck(params, ProfitTakingTrack(state), current_date, portfolio_state)

\* A decision that buys twice the base amount.
PureDecideDouble == Decision(<<2, 1>>, RZero)

\* A decision that buys the base amount and sells a tenth of the position.
PureDecideSelling == Decision(ROne, <<1, 10>>)

\* DCAPureStrategy.calculate_investment
PureDecide == Decision(ROne, RZero)

(***************************************************************************)
(* The strategies that read the price history.  A history is a function   *)
(* from trading day to close; closes are integers and may be zero.        *)
(***************************************************************************)
DipBuyingStrategy(params) == [kind |-> "dip", params |-> params]
TrendFilterStrategy(params) == [kind |-> "trend", params |-> params]
VolatilityStrategy(params) == [kind |-> "volatility", params |-> params]

\* A reading of the whole series, whatever the date of the call.
AllPrices(historical_data, current_date) ==
    LET days == SortedSeq(DOMAIN historical_data)
    IN  [i \in 1..Len(days) |-> historical_data[days[i]]]

\* prices[prices.index <= current_date], in date order
RelevantPrices(historical_data, current_date) ==
    LET days == SortedSeq({d \in DOMAIN historical_data : d <= current_date})
    IN  [i \in 1..Len(days) |-> historical_data[days[i]]]

\* Series.tail(n)
TailN(s, n) == IF n >= Len(s) THEN s ELSE SubSeq(s, Len(s) - n + 1, Len(s))

\* Series.max() and Series.mean() of a non-empty series of closes
SeqMax(s) == SetMax({s[i] : i \in 1..Len(s)})
SeqSum(s) ==
    LET sum[i \in 0..Len(s)] == IF i = 0 THEN 0 ELSE sum[i - 1] + s[i]
    IN  sum[Len(s)]
SeqMean(s) == R(SeqSum(s), Len(s))

DipBuyingDefaults ==
    [lookback_period |-> 252, dip_threshold_1 |-> <<1, 10>>, multiplier_1 |-> <<3, 2>>,
     dip_threshold_2 |-> <<1, 5>>, multiplier_2 |-> <<2, 1>>]

\* A tier test that asks for the shallow tier first.
DipTierShallowFirst(params, drawdown) ==
    IF RGe(drawdown, params.dip_threshold_1)
    THEN params.multiplier_1
    ELSE IF RGe(drawdown, params.dip_threshold_2)
    THEN params.multiplier_2
    ELSE ROne

\* The tier of a drawdown: the deep tier is asked for first.
DipTier(params, drawdown) ==
    IF RGe(drawdown, params.dip_threshold_2)
    THEN params.multiplier_2
    ELSE IF RGe(drawdown, params.dip_threshold_1)
    THEN params.multiplier_1
    ELSE ROne

\* (recent_high - current_price) / recent_high
Drawdown(recent_high, current_price) ==
    RDiv(RSub(RInt(recent_high), current_price), RInt(recent_high))

\* A test that lets a history of one close through.
TooFewForDipBelowOne(relevant_prices) == Len(relevant_prices) < 1

\* len(relevant_prices) < 2
TooFewForDip(relevant_prices) == Len(relevant_prices) < 2

\* DCADipBuyingStrategy.calculate_investment
DipBuyingDecide(params, current_price, current_date, historical_data) ==
    LET relevant_prices == RelevantPrices(historical_data, current_date)
    IN  IF TooFewForDip(relevant_prices)
        THEN NeutralDecision
        ELSE LET lookback_prices == TailN(relevant_prices, params.lookback_period)
                 recent_high == SeqMax(lookback_prices)
             IN  IF recent_high <= 0
                 THEN NeutralDecision
                 ELSE Decision(DipTier(params, Drawdown(recent_high, current_price)),
                               RZero)

TrendFilterDefaults ==
    [ma_period |-> 200, ma_type |-> "SMA", above_multiplier |-> <<1, 1>>,
     below_multiplier |-> <<3, 2>>]

\* rolling(window=period, min_periods=1).mean(), last value
SMA(prices, period) == SeqMean(TailN(prices, period))

\* ewm(span=period, adjust=False).mean(), last value
EMA(prices, period) ==
    LET alpha == R(2, period + 1)
        ema[i \in 1..Len(prices)] ==
            IF i = 1
            THEN RInt(prices[1])
            ELSE RAdd(RMul(RSub(ROne, alpha), ema[i - 1]), RMul(alpha, RInt(prices[i])))
    IN  ema[Len(prices)]

\* _calculate_ma(...).iloc[-1]
CurrentMA(prices, period, ma_type) ==
    IF ma_type = "EMA" THEN EMA(prices, period) ELSE SMA(prices, period)

\* DCATrendFilterStrategy.calculate_investment; ma_period is at least 1.
TrendFilterDecide(params, current_price, current_date, historical_data) ==
    LET relevant_prices == RelevantPrices(historical_data, current_date)
    IN  IF Len(relevant_prices) < params.ma_period
        THEN NeutralDecision
        ELSE IF RLt(current_price,
                    CurrentMA(relevant_prices, params.ma_period, params.ma_type))
        THEN Decision(params.below_multiplier, RZero)
        ELSE Decision(params.above_multiplier, RZero)

VolatilityDefaults ==
    [volatility_window |-> 20, lookback_period |-> 252,
     high_vol_threshold |-> <<3, 2>>, low_vol_threshold |-> <<4, 5>>,
     high_vol_multiplier |-> <<3, 2>>, low_vol_multiplier |-> <<4, 5>>]

\* prices.pct_change().dropna() of a series of positive closes
Returns(prices) ==
    [i \in 1..(Len(prices) - 1) |-> R(prices[i + 1] - prices[i], prices[i])]

\* returns.rolling(window).std() * sqrt(252), in units of sqrt(126).  The
\* sample deviation of one value is not a number (None); of two values a and
\* b it is |a - b| / sqrt(2), so that every ratio of two volatilities of a
\* window of two is an exact rational.  Wider windows are not modelled.
Volatility(prices, window) ==
    LET returns == Returns(prices)
    IN  [i \in 1..Len(returns) |->
            IF window = 2 /\ i >= 2
            THEN Some(RAbs(RSub(returns[i], returns[i - 1])))
            ELSE None]

\* Series.mean(): the mean of the values that are numbers, None if none is.
MeanOfNumbers(s) ==
    LET numbers == {i \in 1..Len(s) : ~IsNone(s[i])}
        sum[i \in 0..Len(s)] ==
            IF i = 0 THEN RZero
            ELSE IF IsNone(s[i]) THEN sum[i - 1]
            ELSE RAdd(sum[i - 1], Get(s[i]))
    IN  IF numbers = {} THEN None ELSE Some(RDiv(sum[Len(s)], RInt(Cardinality(numbers))))

\* The multiplier for the ratio of the current to the average volatility.
VolatilityTier(params, vol_ratio) ==
    IF RGe(vol_ratio, params.high_vol_threshold)
    THEN params.high_vol_multiplier
    ELSE IF RLe(vol_ratio, params.low_vol_threshold)
    THEN params.low_vol_multiplier
    ELSE ROne

\* DCAVolatilityStrategy.calculate_investment; both windows are at least 1.
VolatilityDecide(params, current_price, current_date, historical_data) ==
    LET relevant_prices == RelevantPrices(historical_data, current_date)
        vol_window == params.volatility_window
        lookback == params.lookback_period
        min_required == (IF vol_window > lookback THEN vol_window ELSE lookback) + 1
    IN  IF Len(relevant_prices) < min_required
        THEN NeutralDecision
        ELSE LET volatility == Volatility(relevant_prices, vol_window)
                 current_vol == volatility[Len(volatility)]
                 avg_vol == MeanOfNumbers(TailN(volatility, lookback))
             IN  IF IsNone(current_vol) \/ IsNone(avg_vol) \/ RIsZero(Get(avg_vol))
                 THEN NeutralDecision
                 ELSE Decision(VolatilityTier(params,
                                              RDiv(Get(current_vol), Get(avg_vol))),
                               RZero)

\* strategy.calculate_investment(current_price, current_date, historical_data,
\* portfolio_state), dispatched on the instance's class.
Decide(strategy, state, current_price, current_date, historical_data, portfolio_state) ==
    CASE strategy.kind = "pure" -> [decision |-> PureDecide, state |-> state]
      [] strategy.kind = "profit" ->
            ProfitTakingDecide(strategy.params, state, current_date, portfolio_state)
      [] strategy.kind = "dip" ->
            [decision |-> DipBuyingDecide(strategy.params, current_price, current_date,
                                          historical_data),
             state |-> state]
      [] strategy.kind = "trend" ->
            [decision |-> TrendFilterDecide(strategy.params, current_price,
                                            current_date, historical_data),
             state |-> state]
      [] strategy.kind = "volatility" ->
            [decision |-> VolatilityDecide(strategy.params, current_price,
                                           current_date, historical_data),
             state |-> state]
      [] strategy.kind = "constant" ->
            [decision |-> Decision(strategy.params.multiplier, strategy.params.sell),
             state |-> state]
      [] OTHER -> [decision |-> Raised, state |-> state]

\* The same call in two steps, as a thread that can be preempted between
\* them makes it: the writes of the cooldown tracking, then the rest.
DecideTrack(strategy, state) ==
    IF strategy.kind = "profit" THEN ProfitTakingTrack(state) ELSE state

DecideCheck(strategy, state, current_price, current_date, historical_data, portfolio_state) ==
    IF strategy.kind = "profit"
    THEN ProfitTakingCheck(strategy.params, state, current_date, portfolio_state)
    ELSE Decide(strategy, state, current_price, current_date, historical_data,
                portfolio_state)

(***************************************************************************)
(* The backtest engine: one period of run_backtest's loop.                 *)
(***************************************************************************)
\* (current_value - total_cost) / total_cost * 100 if total_cost > 0 else 0.0
ReturnPct(current_value, total_cost) ==
    IF RPos(total_cost)
    THEN RMul(RDiv(RSub(current_value, total_cost), total_cost), RHundred)
    ELSE RZero

PortfolioState(total_shares, total_cost, price) ==
    [total_shares |-> total_shares,
     total_cost |-> total_cost,
     current_value |-> RMul(total_shares, price),
     cumulative_return |-> ReturnPct(RMul(total_shares, price), total_cost)]

\* shares_sold: total_shares * sell_percentage when selling applies, else 0.
SharesSold(total_shares, decision) ==
    IF RPos(decision.sell_percentage) /\ RPos(total_shares)
    THEN RMul(total_shares, decision.sell_percentage)
    ELSE RZero

\* A cost basis that a sell reduces by its proceeds.
CostAfterNetOfSells(total_cost, investment, sell_proceeds) ==
    RSub(RAdd(total_cost, investment), sell_proceeds)

\* total_cost += investment: the cost basis after a period.
CostAfter(total_cost, investment, sell_proceeds) == RAdd(total_cost, investment)

\* A period that buys first and sells a share of what is held after the buy.
TransactBuyFirst(base_investment, decision, total_shares, total_cost, invest_date, price) ==
    LET investment == RMul(base_investment, decision.investment_multiplier)
        shares_bought == RDiv(investment, price)
        shares_sold == SharesSold(RAdd(total_shares, shares_bought), decision)
        sell_proceeds == RMul(shares_sold, price)
        shares_after == RSub(RAdd(total_shares, shares_bought), shares_sold)
        cost_after == CostAfter(total_cost, investment, sell_proceeds)
        value_after == RMul(shares_after, price)
    IN  [date |-> invest_date,
         price |-> price,
         investment |-> investment,
         multiplier |-> decision.investment_multiplier,
         shares_bought |-> shares_bought,
         shares_sold |-> shares_sold,
         sell_proceeds |-> sell_proceeds,
         total_shares |-> shares_after,
         total_cost |-> cost_after,
         current_value |-> value_after,
         return_pct |-> ReturnPct(value_after, cost_after)]

\* The transaction row of one period and the running totals after it, given
\* the strategy's decision.
Transact(base_investment, decision, total_shares, total_cost, invest_date, price) ==
    LET investment == RMul(base_investment, decision.investment_multiplier)
        shares_sold == SharesSold(total_shares, decision)
        sell_proceeds == RMul(shares_sold, price)
        shares_bought == RDiv(investment, price)
        shares_after == RAdd(RSub(total_shares, shares_sold), shares_bought)
        cost_after == CostAfter(total_cost, investment, sell_proceeds)
        value_after == RMul(shares_after, price)
    IN  [date |-> invest_date,
         price |-> price,
         investment |-> investment,
         multiplier |-> decision.investment_multiplier,
         shares_bought |-> shares_bought,
         shares_sold |-> shares_sold,
         sell_proceeds |-> sell_proceeds,
         total_shares |-> shares_after,
         total_cost |-> cost_after,
         current_value |-> value_after,
         return_pct |-> ReturnPct(value_after, cost_after)]

\* One iteration of the loop over investment_dates: the decide call and,
\* unless it raised, the transaction.
Period(strategy, state, data, base_investment, total_shares, total_cost, entry) ==
    LET price == RInt(entry.price)
        historical == Historical(data, entry.date)
        portfolio_state == PortfolioState(total_shares, total_cost, price)
        d == Decide(strategy, state, price, entry.date, historical, portfolio_state)
    IN  [raised |-> d.decision.raised,
         state |-> d.state,
         historical |-> historical,
         decision |-> d.decision,
         row |-> Transact(base_investment, d.decision, total_shares, total_cost,
                          entry.date, price)]

\* The same iteration when the cooldown tracking of the decide call has
\* already been done on the instance.
PeriodAfterTrack(strategy, state, data, base_investment, total_shares, total_cost, entry) ==
    LET price == RInt(entry.price)
        historical == Historical(data, entry.date)
        portfolio_state == PortfolioState(total_shares, total_cost, price)
        d == DecideCheck(strategy, state, price, entry.date, historical, portfolio_state)
    IN  [raised |-> d.decision.raised,
         state |-> d.state,
         historical |-> historical,
         decision |-> d.decision,
         row |-> Transact(base_investment, d.decision, total_shares, total_cost,
                          entry.date, price)]

(***************************************************************************)
(* The metrics calculator.  A metric value is a float: an exact number,   *)
(* NaN, an infinity, or a finite number known only by its sign ("pos",    *)
(* "neg") or only to be finite ("fin").                                    *)
(***************************************************************************)
Num(r) == [k |-> "num", v |-> r]
NaN == [k |-> "nan", v |-> RZero]
PosInf == [k |-> "inf", v |-> ROne]
NegInf == [k |-> "inf", v |-> <<-1, 1>>]
PosFinite == [k |-> "pos", v |-> RZero]
NegFinite == [k |-> "neg", v |-> RZero]
Finite == [k |-> "fin", v |-> RZero]
Zero == Num(RZero)

IsNaN(x) == x.k = "nan"
IsFinite(x) == x.k \in {"num", "pos", "neg", "fin"}
\* x <= 0 as the program's comparison decides it: false for NaN.
LeZero(x) ==
    \/ x.k = "num" /\ RLe(x.v, RZero)
    \/ x.k = "neg"
    \/ x = NegInf

\* a / b on floats of numpy: x/0 is an infinity, 0/0 is NaN.
FloatDiv(a, b) ==
    IF ~RIsZero(b) THEN Num(RDiv(a, b))
    ELSE IF RIsZero(a) THEN NaN
    ELSE IF RPos(a) THEN PosInf ELSE NegInf

\* The sign class of an exact number.
ClassOf(r) == IF RIsZero(r) THEN Zero ELSE IF RPos(r) THEN PosFinite ELSE NegFinite

RiskFreeRate == <<2, 100>>
DaysPerYear == <<1461, 4>>

\* The total return without the guard on total_cost.
UnguardedTotalReturn(total_cost, final_value) ==
    LET q == FloatDiv(RSub(final_value, total_cost), total_cost)
    IN  IF q.k = "num" THEN Num(RMul(q.v, RHundred)) ELSE q

\* MetricsCalculator.calculate_total_return
CalculateTotalReturn(total_cost, final_value) ==
    IF RLe(total_cost, RZero)
    THEN Zero
    ELSE Num(RMul(RDiv(RSub(final_value, total_cost), total_cost), RHundred))

\* MetricsCalculator.calculate_cagr: ((final_value / total_cost) ** (1 / years) - 1)
\* * 100 has the sign of final_value - total_cost and is exactly 0 when they
\* are equal.
CalculateCagr(total_cost, final_value, years) ==
    IF RLe(total_cost, RZero) \/ RLe(years, RZero) \/ RLe(final_value, RZero)
    THEN Zero
    ELSE ClassOf(RSub(final_value, total_cost))

\* values.pct_change(): entry i (from the second) is values[i] / values[i-1] - 1.
PctChange(values) ==
    [i \in 1..(Len(values) - 1) |->
        LET q == FloatDiv(values[i + 1], values[i])
        IN  IF q.k = "num" THEN Num(RSub(q.v, ROne)) ELSE q]

\* .dropna(), .replace([inf, -inf], nan).dropna(): the finite entries, in order.
DropNonFinite(xs) ==
    SelectSeq(xs, LAMBDA x : x.k = "num")

Values(xs) == [i \in 1..Len(xs) |-> xs[i].v]

AllEqual(xs) == \A i, j \in 1..Len(xs) : xs[i] = xs[j]

\* Series.std() scaled by sqrt(periods_per_year) * 100: zero exactly when the
\* entries are all equal, else positive.
AnnualizedStd(xs) == IF AllEqual(xs) THEN Zero ELSE PosFinite

\* MetricsCalculator.calculate_volatility
CalculateVolatility(returns) ==
    IF Len(returns) < 2 THEN Zero ELSE AnnualizedStd(returns)

\* MetricsCalculator.calculate_downside_volatility (threshold 0)
CalculateDownsideVolatility(returns) ==
    LET downside_returns == SelectSeq(returns, LAMBDA r : RLt(r, RZero))
    IN  IF Len(returns) = 0 THEN Zero
        ELSE IF Len(downside_returns) < 2 THEN Zero
        ELSE AnnualizedStd(downside_returns)

\* The index of a least entry of a non-empty sequence of rationals.
ArgMin(xs) == CHOOSE i \in 1..Len(xs) : \A j \in 1..Len(xs) : RLe(xs[i], xs[j])
Without(xs, i) == [j \in 1..(Len(xs) - 1) |-> IF j < i THEN xs[j] ELSE xs[j + 1]]

\* MetricsCalculator.calculate_var: np.percentile(returns, 1) * 100, the linear
\* interpolation between the two least returns at position (n - 1) / 100
\* (n <= 100).
CalculateVar(returns) ==
    IF Len(returns) = 0 THEN Zero
    ELSE LET lo == returns[ArgMin(returns)]
             rest == Without(returns, ArgMin(returns))
         IN  IF Len(rest) = 0 THEN Num(RMul(lo, RHundred))
             ELSE LET hi == rest[ArgMin(rest)]
                      at == RAdd(lo, RMul(R(Len(returns) - 1, 100), RSub(hi, lo)))
                  IN  Num(RMul(at, RHundred))

RMaxOf(xs, n) == xs[CHOOSE i \in 1..n : \A j \in 1..n : RGe(xs[i], xs[j])]

\* |x| of a float.
FloatAbs(x) ==
    CASE x.k = "num" -> Num(RAbs(x.v))
      [] x.k = "inf" -> PosInf
      [] x.k = "neg" -> PosFinite
      [] OTHER -> x

\* drawdowns.min(): the least entry that is not NaN, NaN when there is none.
MinSkipNaN(xs) ==
    LET nums == Values(SelectSeq(xs, LAMBDA x : x.k = "num"))
    IN  IF \E i \in 1..Len(xs) : xs[i] = NegInf THEN NegInf
        ELSE IF Len(nums) > 0 THEN Num(nums[ArgMin(nums)])
        ELSE IF \E i \in 1..Len(xs) : xs[i] = PosInf THEN PosInf
        ELSE NaN

\* The drawdown series: (values - running_max) / running_max * 100.
Drawdowns(values) ==
    [i \in 1..Len(values) |->
        LET running_max == RMaxOf(values, i)
            q == FloatDiv(RSub(values[i], running_max), running_max)
        IN  IF q.k = "num" THEN Num(RMul(q.v, RHundred)) ELSE q]

\* MetricsCalculator.calculate_max_drawdown: abs(max_dd).  The duration is 0:
\* the equity curve the engine passes has no DatetimeIndex.
CalculateMaxDrawdown(values) ==
    IF Len(values) < 2 THEN Zero ELSE FloatAbs(MinSkipNaN(Drawdowns(values)))

\* cagr - risk_free_pct over a positive denominator, by class.
ExcessOver(cagr, denominator) ==
    LET risk_free_pct == RMul(RiskFreeRate, RHundred)
    IN  CASE cagr.k = "num" /\ denominator.k = "num" ->
                Num(RDiv(RSub(cagr.v, risk_free_pct), denominator.v))
          [] cagr.k = "num" -> ClassOf(RSub(cagr.v, risk_free_pct))
          [] cagr.k = "neg" -> NegFinite
          [] OTHER -> Finite

\* MetricsCalculator.calculate_sharpe_ratio
CalculateSharpeRatio(cagr, volatility) ==
    IF LeZero(volatility) THEN Zero ELSE ExcessOver(cagr, volatility)

\* MetricsCalculator.calculate_sortino_ratio
CalculateSortinoRatio(cagr, downside_vol) ==
    IF LeZero(downside_vol) THEN Zero ELSE ExcessOver(cagr, downside_vol)

\* MetricsCalculator.calculate_calmar_ratio: cagr / max_drawdown.
CalculateCalmarRatio(cagr, max_drawdown) ==
    IF LeZero(max_drawdown) THEN Zero
    ELSE IF max_drawdown.k = "nan" THEN NaN
    ELSE IF max_drawdown.k = "inf" THEN Zero
    ELSE IF cagr.k = "num" /\ max_drawdown.k = "num"
         THEN Num(RDiv(cagr.v, max_drawdown.v))
    ELSE cagr

\* MetricsCalculator.calculate_win_rate
CalculateWinRate(transactions) ==
    IF Len(transactions) = 0 THEN Zero
    ELSE LET positive_periods ==
                 Cardinality({i \in 1..Len(transactions) :
                                 RPos(transactions[i].return_pct)})
         IN  Num(RMul(R(positive_periods, Len(transactions)), RHundred))

RECURSIVE SumInvestment(_, _)
SumInvestment(transactions, rows) ==
    IF rows = {} THEN RZero
    ELSE LET i == SetMin(rows)
         IN  RAdd(transactions[i].investment, SumInvestment(transactions, rows \ {i}))

\* MetricsCalculator.calculate_annual_returns: year -> return of the year.
CalculateAnnualReturns(transactions) ==
    LET years == {YearOf(transactions[i].date) : i \in 1..Len(transactions)}
        rows(y) == {i \in 1..Len(transactions) : YearOf(transactions[i].date) = y}
    IN  [y \in years |->
            LET year_end == transactions[SetMax(rows(y))]
                year_start == transactions[SetMin(rows(y))]
                start_value == RSub(year_start.current_value, year_start.investment)
            IN  IF RPos(start_value)
                THEN Num(RMul(RDiv(RSub(RSub(year_end.current_value, start_value),
                                        SumInvestment(transactions, rows(y))),
                                   start_value), RHundred))
                ELSE Num(year_end.return_pct)]

\* PerformanceMetrics(): every field at its default.
DefaultMetrics ==
    [total_return |-> Zero, total_return_amount |-> Zero, cagr |-> Zero,
     annual_returns |-> [y \in {} |-> Zero],
     max_drawdown |-> Zero, max_drawdown_duration |-> 0,
     volatility |-> Zero, downside_volatility |-> Zero, var_99 |-> Zero,
     sharpe_ratio |-> Zero, sortino_ratio |-> Zero, calmar_ratio |-> Zero,
     total_trades |-> 0, average_cost |-> Zero, total_invested |-> Zero,
     final_value |-> Zero, total_shares |-> Zero,
     investment_months |-> 0, investment_years |-> Zero, win_rate |-> Zero]

\* The risk metrics are computed only from more than one period return.
EnoughReturns(returns) == Len(returns) > 1

\* MetricsCalculator.calculate_all_metrics(transactions, equity_curve), the
\* equity curve being the ledger's own current_value column.
CalculateAllMetrics(transactions) ==
    IF Len(transactions) = 0 THEN DefaultMetrics
    ELSE
    LET n == Len(transactions)
        total_invested == transactions[n].total_cost
        final_value == transactions[n].current_value
        total_shares == transactions[n].total_shares
        investment_years ==
            RDiv(RInt(transactions[n].date - transactions[1].date), DaysPerYear)
        cagr == CalculateCagr(total_invested, final_value, investment_years)
        values == [i \in 1..n |-> transactions[i].current_value]
        returns == Values(DropNonFinite(PctChange(values)))
        max_drawdown == CalculateMaxDrawdown(values)
        volatility == CalculateVolatility(returns)
        downside_volatility == CalculateDownsideVolatility(returns)
        risk == EnoughReturns(returns)
    IN  [total_return |-> CalculateTotalReturn(total_invested, final_value),
         total_return_amount |-> Num(RSub(final_value, total_invested)),
         cagr |-> cagr,
         annual_returns |-> CalculateAnnualReturns(transactions),
         max_drawdown |-> max_drawdown,
         max_drawdown_duration |-> 0,
         volatility |-> IF risk THEN volatility ELSE Zero,
         downside_volatility |-> IF risk THEN downside_volatility ELSE Zero,
         var_99 |-> IF risk THEN CalculateVar(returns) ELSE Zero,
         sharpe_ratio |-> IF risk THEN CalculateSharpeRatio(cagr, volatility) ELSE Zero,
         sortino_ratio |-> IF risk THEN CalculateSortinoRatio(cagr, downside_volatility)
                           ELSE Zero,
         calmar_ratio |-> IF risk THEN CalculateCalmarRatio(cagr, max_drawdown) ELSE Zero,
         total_trades |-> n,
         average_cost |-> IF RPos(total_shares)
                          THEN Num(RDiv(total_invested, total_shares)) ELSE Zero,
         total_invested |-> Num(total_invested),
         final_value |-> Num(final_value),
         total_shares |-> Num(total_shares),
         investment_months |-> n,
         investment_years |-> Num(investment_years),
         win_rate |-> CalculateWinRate(transactions)]

(***************************************************************************)
(* State.                                                                  *)
(***************************************************************************)
VARIABLES
    \* the arguments of run_backtest, the same in every run of a behaviour
    strategy, market_data, has_close, start_date, end_date, frequency,
    \* the strategy instance's private running state
    strategy_state,
    \* run_backtest: where it is, and its locals
    pc, error, investment_dates, total_shares, total_cost, transactions,
    \* what the runs made with this instance returned or raised, in order
    outcomes,
    \* the decide calls made on the instance directly, in order
    calls,
    \* a batch operation: which one, its units, where it is, the engine calls
    \* it has made, its result rows, its lines on stdout, the grid's matrix,
    \* the progress callback's invocations, its counter and what it returned
    mode, units, hpc, attempts, rows, printed, matrix, progress, completed, returned,
    \* the metric the grid is asked to put in its matrix ("" elsewhere)
    metric,
    \* the table compare_strategies made of the results of a batch, if called
    comparison,
    \* rolling_window_analysis: its window and step in days, the start of the
    \* next window of its generation loop and the parity of the iterations
    \* the loop has made (<<>> elsewhere)
    rolling,
    \* the base_params mapping a caller hands to a sweep (None when it hands
    \* none)
    base_params,
    \* monte_carlo_simulation: its arguments and its simulations on the pool
    mc, sims

engineVars ==
    <<strategy, market_data, has_close, start_date, end_date, frequency,
      strategy_state, pc, error, investment_dates, total_shares, total_cost,
      transactions, outcomes>>

decideVars == <<calls>>

harnessVars ==
    <<mode, units, hpc, attempts, rows, printed, matrix, progress, completed, returned,
      metric, comparison, rolling, base_params, mc, sims>>

vars == <<engineVars, decideVars, harnessVars>>

(***************************************************************************)
(* Bounds of the model.                                                    *)
(***************************************************************************)
\* The most trading days in a price series.
MaxRows == 3
\* The most runs made with one strategy instance.
MaxRuns == 2

BaseInvestment == 1000

CandidateDays == {1, 30, 31, 61, 91}
Prices == {100, 200}
StartDates == {None, Some(30)}
EndDates == {None, Some(61)}

\* The price series of the model: up to MaxRows trading days among the
\* candidate days, each with a positive close.
PriceSeries ==
    UNION {[days -> Prices] : days \in {S \in SUBSET CandidateDays : Cardinality(S) <= MaxRows}}

Strategies ==
    {PureStrategy,
     ProfitTakingStrategy(ProfitTakingDefaults),
     ProfitTakingStrategy([ProfitTakingDefaults EXCEPT !.cooldown_periods = 2]),
     ConstantStrategy(RZero, RZero),
     ConstantStrategy(<<3, 2>>, RZero),
     ConstantStrategy(ROne, <<1, 2>>),
     TrendFilterStrategy([ma_period |-> 1, ma_type |-> "SMA",
                          above_multiplier |-> <<2, 1>>, below_multiplier |-> RZero]),
     RaisingStrategy}

(***************************************************************************)
(* run_backtest.                                                           *)
(***************************************************************************)
Outcome(err, ledger, metrics) == [error |-> err, transactions |-> ledger, metrics |-> metrics]

\* A test that lets a single investment date through.
TooFewDatesBelowOne(dates) == Len(dates) < 1

\* len(investment_dates) < 2
TooFewDates(dates) == Len(dates) < 2

\* A validation without the test of the filtered series.
ValidateWithoutRangeTest(data, close, start, end, freq) ==
    IF DOMAIN data = {} THEN "Market data is empty"
    ELSE IF ~close THEN "Market data must have 'Close' column"
    ELSE IF TooFewDates(InvestmentDates(FilterRange(data, start, end), freq))
         THEN "Insufficient data points for backtest"
    ELSE ""

\* The validation of run_backtest: the ValueError it raises, "" when none.
Validate(data, close, start, end, freq) ==
    IF DOMAIN data = {} THEN "Market data is empty"
    ELSE IF ~close THEN "Market data must have 'Close' column"
    ELSE IF DOMAIN FilterRange(data, start, end) = {} THEN "No data in specified date range"
    ELSE IF TooFewDates(InvestmentDates(FilterRange(data, start, end), freq))
         THEN "Insufficient data points for backtest"
    ELSE ""

EngineInit ==
    /\ strategy \in Strategies
    /\ market_data \in PriceSeries
    /\ has_close \in BOOLEAN
    /\ start_date \in StartDates
    /\ end_date \in EndDates
    /\ frequency \in Frequencies
    /\ strategy_state = FreshState
    /\ pc = "idle"
    /\ error = ""
    /\ investment_dates = <<>>
    /\ total_shares = RZero
    /\ total_cost = RZero
    /\ transactions = <<>>
    /\ outcomes = <<>>

\* A call of run_backtest with the instance: validation, filtering and
\* resampling, up to the start of the loop.
RunBacktest ==
    /\ pc \in {"idle", "done", "raised"}
    /\ Len(outcomes) < MaxRuns
    /\ LET err == Validate(market_data, has_close, start_date, end_date, frequency)
       IN  IF err # ""
           THEN /\ pc' = "raised"
                /\ error' = err
                /\ outcomes' = Append(outcomes, Outcome(err, <<>>, DefaultMetrics))
                /\ UNCHANGED <<investment_dates, total_shares, total_cost, transactions>>
           ELSE /\ pc' = "loop"
                /\ error' = ""
                /\ investment_dates' =
                       InvestmentDates(FilterRange(market_data, start_date, end_date),
                                       frequency)
                /\ total_shares' = RZero
                /\ total_cost' = RZero
                /\ transactions' = <<>>
                /\ UNCHANGED outcomes
    /\ UNCHANGED <<strategy, market_data, has_close, start_date, end_date, frequency,
                   strategy_state>>
    /\ UNCHANGED <<decideVars, harnessVars>>

\* One iteration of the loop over investment_dates.
LoopPeriod ==
    /\ pc = "loop"
    /\ Len(transactions) < Len(investment_dates)
    /\ LET p == Period(strategy, strategy_state,
                       FilterRange(market_data, start_date, end_date), RInt(BaseInvestment),
                       total_shares, total_cost,
                       investment_dates[Len(transactions) + 1])
       IN  /\ strategy_state' = p.state
           /\ IF p.raised
              THEN /\ pc' = "raised"
                   /\ error' = "strategy"
                   /\ outcomes' = Append(outcomes, Outcome("strategy", <<>>, DefaultMetrics))
                   /\ UNCHANGED <<total_shares, total_cost, transactions>>
              ELSE /\ total_shares' = p.row.total_shares
                   /\ total_cost' = p.row.total_cost
                   /\ transactions' = Append(transactions, p.row)
                   /\ UNCHANGED <<pc, error, outcomes>>
    /\ UNCHANGED <<strategy, market_data, has_close, start_date, end_date, frequency,
                   investment_dates>>
    /\ UNCHANGED <<decideVars, harnessVars>>

\* A calculation of the annual returns that adds its 'year' column to the
\* frame it was handed.
AnnualReturnsInPlace(ledger) ==
    [i \in 1..Len(ledger) |->
        [f \in DOMAIN ledger[i] \cup {"year"} |->
            IF f = "year" THEN RInt(YearOf(ledger[i].date)) ELSE ledger[i][f]]]

\* The frame handed to calculate_all_metrics, after the call: the metrics
\* read it, and calculate_annual_returns adds its 'year' column to a copy.
AnnualReturnsFrame(ledger) == ledger

\* After the loop: the ledger, its metrics and the BacktestResult.
BuildResult ==
    /\ pc = "loop"
    /\ Len(transactions) = Len(investment_dates)
    /\ pc' = "done"
    /\ outcomes' = Append(outcomes, Outcome("", AnnualReturnsFrame(transactions),
                                            CalculateAllMetrics(transactions)))
    /\ UNCHANGED <<strategy, market_data, has_close, start_date, end_date, frequency,
                   strategy_state, error, investment_dates, total_shares, total_cost,
                   transactions>>
    /\ UNCHANGED <<decideVars, harnessVars>>

\* No decide call made outside a run, no batch operation under way.
NoDirectCalls == calls = <<>>

\* No batch operation under way.
NoOperation ==
    /\ mode = "none"
    /\ units = <<>>
    /\ hpc = "idle"
    /\ attempts = <<>>
    /\ rows = <<>>
    /\ printed = <<>>
    /\ matrix = <<>>
    /\ progress = <<>>
    /\ completed = 0
    /\ returned = "nothing"
    /\ metric = ""
    /\ comparison = None
    /\ rolling = <<>>
    /\ mc = <<>>
    /\ sims = <<>>

NoBatch == NoOperation /\ base_params = None

Init == EngineInit /\ NoDirectCalls /\ NoBatch

Next == RunBacktest \/ LoopPeriod \/ BuildResult

Spec == Init /\ [][Next]_vars

(***************************************************************************)
(* Decide calls made directly on one profit-taking instance.               *)
(***************************************************************************)
\* The most decide calls made on the instance.
MaxCalls == 4

CooldownChoices == {0, 1, 2, 3}
SellPercentages == {RZero, <<3, 10>>}
\* cumulative_return, in percent, and total_shares of a portfolio_state
ReturnChoices == {0, 29, 30, 50}
ShareChoices == {0, 10}

\* run_backtest is not running: its locals are as before any call.
EngineIdle ==
    /\ pc = "idle"
    /\ error = ""
    /\ investment_dates = <<>>
    /\ total_shares = RZero
    /\ total_cost = RZero
    /\ transactions = <<>>
    /\ outcomes = <<>>

DecideInit ==
    /\ \E c \in CooldownChoices, s \in SellPercentages :
           strategy = ProfitTakingStrategy(
                          [ProfitTakingDefaults EXCEPT !.cooldown_periods = c,
                                                       !.sell_percentage = s])
    /\ strategy_state = FreshState
    /\ market_data = <<>>
    /\ has_close = TRUE
    /\ start_date = None
    /\ end_date = None
    /\ frequency = "M"
    /\ EngineIdle
    /\ NoDirectCalls
    /\ NoBatch

\* One calculate_investment call on the instance, for some portfolio state.
DecideCall ==
    /\ Len(calls) < MaxCalls
    /\ \E ret \in ReturnChoices, shares \in ShareChoices :
          LET portfolio_state == [total_shares |-> RInt(shares),
                                  total_cost |-> RInt(BaseInvestment),
                                  current_value |-> RInt(BaseInvestment),
                                  cumulative_return |-> RInt(ret)]
              d == Decide(strategy, strategy_state, ROne, Len(calls) + 1, <<>>,
                          portfolio_state)
          IN  /\ strategy_state' = d.state
              /\ calls' = Append(calls, [portfolio_state |-> portfolio_state,
                                         decision |-> d.decision,
                                         state |-> d.state])
    /\ UNCHANGED <<strategy, market_data, has_close, start_date, end_date, frequency,
                   pc, error, investment_dates, total_shares, total_cost, transactions,
                   outcomes>>
    /\ UNCHANGED harnessVars

NextDecide == DecideCall

SpecDecide == DecideInit /\ [][NextDecide]_vars

(***************************************************************************)
(* Decide calls on one profit-taking instance with reset() calls between   *)
(* them.  A reset is recorded among the calls as a record with the field   *)
(* reset.                                                                  *)
(***************************************************************************)
IsReset(call) == "reset" \in DOMAIN call

ResetCall ==
    /\ Len(calls) < MaxCalls
    /\ strategy_state' = Reset(strategy_state)
    /\ calls' = Append(calls, [reset |-> TRUE, before |-> strategy_state,
                               state |-> Reset(strategy_state)])
    /\ UNCHANGED <<strategy, market_data, has_close, start_date, end_date, frequency,
                   pc, error, investment_dates, total_shares, total_cost, transactions,
                   outcomes>>
    /\ UNCHANGED harnessVars

NextReset == DecideCall \/ ResetCall

SpecReset == DecideInit /\ [][NextReset]_vars

(***************************************************************************)
(* Direct calls of calculate_investment on a fresh instance of each of    *)
(* the five strategies, with a history that may extend beyond the date of *)
(* the call.                                                               *)
(***************************************************************************)
HistoryDays == 1..4
Closes == {0, 100, 120}
CallDates == {0, 1, 2, 4}
CallPrices == {0, 75, 85, 90, 100}

\* Every series of closes on the first n trading days, n = 0..4.
Histories(closes) ==
    UNION {[1..n -> closes] : n \in {0} \cup HistoryDays}

\* BaseStrategy.__init__ keeps whatever parameters it is given.
PureStrategyWith(params) == [kind |-> "pure", params |-> params]

DirectStrategies ==
    {PureStrategy, PureStrategyWith([investment_multiplier |-> <<2, 1>>]),
     ProfitTakingStrategy(ProfitTakingDefaults)}
    \cup {DipBuyingStrategy([DipBuyingDefaults EXCEPT !.lookback_period = n]) :
              n \in {2, 252}}
    \cup {DipBuyingStrategy([lookback_period |-> 3,
                             dip_threshold_1 |-> <<1, 20>>, multiplier_1 |-> <<2, 1>>,
                             dip_threshold_2 |-> <<3, 10>>, multiplier_2 |-> <<3, 1>>])}
    \cup {TrendFilterStrategy([TrendFilterDefaults EXCEPT !.ma_period = n,
                                                           !.ma_type = t]) :
              n \in {2, 3, 200}, t \in {"SMA", "EMA"}}
    \cup {TrendFilterStrategy([ma_period |-> 2, ma_type |-> "SMA",
                               above_multiplier |-> <<1, 2>>,
                               below_multiplier |-> <<2, 1>>])}
    \cup {VolatilityStrategy([VolatilityDefaults EXCEPT !.volatility_window = w,
                                                         !.lookback_period = n]) :
              w \in {1, 2}, n \in {1, 2, 3}}
    \cup {VolatilityStrategy(VolatilityDefaults)}

\* Series with closes in three weeks and two months, for the engine's loop.
SparseDays == {1, 8, 31}
SparseHistories == [SparseDays -> Closes \ {0}]

\* The volatility strategy is called on positive closes: its percentage
\* changes are then all numbers.
HistoriesFor(strat) ==
    SparseHistories
    \cup (IF strat.kind = "volatility" THEN Histories(Closes \ {0}) ELSE Histories(Closes))

PortfolioChoices ==
    {PortfolioState(RZero, RZero, ROne),
     [total_shares |-> RInt(10), total_cost |-> RInt(BaseInvestment),
      current_value |-> RInt(BaseInvestment + 500), cumulative_return |-> RInt(50)]}

StrategyInit ==
    /\ strategy \in DirectStrategies
    /\ strategy_state = FreshState
    /\ market_data \in HistoriesFor(strategy)
    /\ has_close = TRUE
    /\ start_date = None
    /\ end_date = None
    /\ frequency = "M"
    /\ EngineIdle
    /\ NoDirectCalls
    /\ NoBatch

\* One calculate_investment call on the fresh instance, made directly with
\* the whole series.
StrategyCall ==
    /\ calls = <<>>
    /\ \E current_price \in CallPrices, current_date \in CallDates,
          portfolio_state \in PortfolioChoices :
          \E d \in {Decide(strategy, strategy_state, RInt(current_price), current_date,
                           market_data, portfolio_state)} :
              /\ strategy_state' = d.state
              /\ calls' = <<[via |-> "direct",
                             current_price |-> RInt(current_price),
                             current_date |-> current_date,
                             historical_data |-> market_data,
                             portfolio_state |-> portfolio_state,
                             decision |-> d.decision,
                             before |-> strategy_state,
                             state |-> d.state]>>
    /\ UNCHANGED <<strategy, market_data, has_close, start_date, end_date, frequency,
                   pc, error, investment_dates, total_shares, total_cost, transactions,
                   outcomes>>
    /\ UNCHANGED harnessVars

\* The call one iteration of run_backtest's loop makes on the instance, for
\* some investment date of the series and some running totals.  The engine
\* is run on positive closes.
EnginePeriod ==
    /\ calls = <<>>
    /\ \A day \in DOMAIN market_data : market_data[day] > 0
    /\ \E freq \in Frequencies, portfolio_state \in PortfolioChoices :
          \E dates \in {InvestmentDates(market_data, freq)} :
              \E k \in 1..Len(dates) :
                  \E p \in {Period(strategy, strategy_state, market_data,
                                    RInt(BaseInvestment), portfolio_state.total_shares,
                                    portfolio_state.total_cost, dates[k])} :
                      /\ strategy_state' = p.state
                      /\ calls' = <<[via |-> "engine",
                                     current_price |-> RInt(dates[k].price),
                                     current_date |-> dates[k].date,
                                     historical_data |-> p.historical,
                                     portfolio_state |->
                                         PortfolioState(portfolio_state.total_shares,
                                                        portfolio_state.total_cost,
                                                        RInt(dates[k].price)),
                                     decision |-> p.decision,
                                     before |-> strategy_state,
                                     state |-> p.state]>>
    /\ UNCHANGED <<strategy, market_data, has_close, start_date, end_date, frequency,
                   pc, error, investment_dates, total_shares, total_cost, transactions,
                   outcomes>>
    /\ UNCHANGED harnessVars

NextStrategy == StrategyCall \/ EnginePeriod

SpecStrategy == StrategyInit /\ [][NextStrategy]_vars


(***************************************************************************)
(* A whole run_backtest call, as the batch operations make it.             *)
(***************************************************************************)
\* The element of a one-element set.
The(S) == CHOOSE x \in S : TRUE

\* The locals of run_backtest at the start of its loop.
LoopStart(state) ==
    [error |-> "", state |-> state, total_shares |-> RZero, total_cost |-> RZero,
     transactions |-> <<>>]

\* One iteration of the loop on the locals and the instance's private state.
LoopStep(strat, data, dates, at) ==
    LET p == Period(strat, at.state, data, RInt(BaseInvestment), at.total_shares,
                    at.total_cost, dates[Len(at.transactions) + 1])
    IN  IF p.raised
        THEN [error |-> "strategy", state |-> p.state, total_shares |-> at.total_shares,
              total_cost |-> at.total_cost, transactions |-> <<>>]
        ELSE [error |-> "", state |-> p.state, total_shares |-> p.row.total_shares,
              total_cost |-> p.row.total_cost,
              transactions |-> Append(at.transactions, p.row)]

RECURSIVE RunLoop(_, _, _, _)
\* The loop over investment_dates from the entry after the ledger's last
\* row on: how it ends, the instance's private state and the ledger.
RunLoop(strat, data, dates, at) ==
    IF at.error # "" \/ Len(at.transactions) = Len(dates)
    THEN at
    ELSE The({RunLoop(strat, data, dates, next) :
                  next \in {LoopStep(strat, data, dates, at)}})

\* What run_backtest hands back once its loop is over or has raised.
RunResult(run) ==
    IF run.error # ""
    THEN [error |-> run.error, state |-> run.state, metrics |-> DefaultMetrics]
    ELSE [error |-> "", state |-> run.state,
          metrics |-> CalculateAllMetrics(run.transactions)]

\* run_backtest from call to return or raise: the message of what it raised
\* ("" when it returned), the instance's private state afterwards and the
\* metrics of the result.
RunBacktestCall(strat, state, data, close, start, end, freq) ==
    LET err == Validate(data, close, start, end, freq)
        window == FilterRange(data, start, end)
    IN  IF err # ""
        THEN [error |-> err, state |-> state, metrics |-> DefaultMetrics]
        ELSE The({RunResult(run) :
                      run \in {RunLoop(strat, window, InvestmentDates(window, freq),
                                       LoopStart(state))}})

(***************************************************************************)
(* The batch operations: run_batch_backtest, the robustness harness and    *)
(* the sensitivity sweeps.  A unit is one engine call the operation is     *)
(* asked to make: its strategy, whether the strategy is an instance of its *)
(* own or the one instance the operation was given, its price series, its  *)
(* date range and, for the grid, its cell of the matrix.                   *)
(***************************************************************************)
\* The most units the caller lists in one batch.
MaxUnits == 3
\* The most values on one axis of the grid.
MaxAxis == 2
\* The largest num_simulations.
MaxSimulations == 2

Modes ==
    {"run_batch", "fixed_start", "rolling", "cross_market", "single_sweep", "dual_grid",
     "monte_carlo"}

Unit(strat, own, data, start, end, cell) ==
    [strategy |-> strat, own |-> own, market_data |-> data, start_date |-> start,
     end_date |-> end, cell |-> cell]

NoCell == <<0, 0>>

HarnessData == [d \in {1, 31, 61, 91} |-> IF d \in {1, 61} THEN 100 ELSE 200]
GappyData == [d \in {1, 31, 91} |-> IF d = 1 THEN 100 ELSE 200]
ShortData == [d \in {1} |-> 100]
EmptyData == [d \in {} |-> 0]

HarnessFrequencies == {"M", "Q"}

BatchStrategies ==
    {PureStrategy,
     ProfitTakingStrategy([ProfitTakingDefaults EXCEPT !.cooldown_periods = 2]),
     RaisingStrategy}

\* The strategies handed to run_batch_backtest: those above, and a second
\* profit-taking instance whose threshold is never met.
ComparedStrategies ==
    BatchStrategies \cup
        {ProfitTakingStrategy([ProfitTakingDefaults EXCEPT !.profit_threshold = <<2, 1>>])}

SharedStrategies ==
    {PureStrategy,
     ProfitTakingStrategy([ProfitTakingDefaults EXCEPT !.cooldown_periods = 2])}

SeqsUpTo(S, n) == UNION {[1..k -> S] : k \in 0..n}

\* strategy.name
StrategyName(strat) == strat.kind

\* strategy_class(params=params) of the sweeps, the class being the
\* profit-taking one: a profit_threshold that is no number (None here) makes
\* the comparison of the first decide call raise.
SweepStrategy(threshold, cooldown) ==
    IF IsNone(threshold)
    THEN RaisingStrategy
    ELSE ProfitTakingStrategy([ProfitTakingDefaults EXCEPT
                                   !.profit_threshold = Get(threshold),
                                   !.cooldown_periods = cooldown])

ThresholdValues == {Some(<<3, 10>>), Some(<<1, 2>>), None}
AboveValues == {RZero, ROne}
BelowValues == {RZero, <<3, 2>>}
MonthStartData == [d \in {0, 30, 60} |-> IF d = 30 THEN 200 ELSE 100]
CooldownValues == {2, 6}
TestDates == {1, 61, 91, 120}
WindowDays == {20, 35, 65}
StepDays == {0, 30, 60}
Markets == {HarnessData, ShortData, EmptyData}

\* The pairs (i, j) of the grid's two loops, in the order they are run.
GridOrder(n1, n2) == [k \in 1..(n1 * n2) |-> <<((k - 1) \div n2) + 1, ((k - 1) % n2) + 1>>]

\* A cell of a missing value in a result table.
Missing == [k |-> "none", v |-> RZero]

\* The row a unit that ran through adds to the results.
ResultRow(key, metrics) ==
    [key |-> key, error |-> "", total_return |-> metrics.total_return,
     cagr |-> metrics.cagr, max_drawdown |-> metrics.max_drawdown,
     sharpe_ratio |-> metrics.sharpe_ratio]

\* A row of zeros with no error message for a unit that failed.
ErrorRowOfZeros(key, err) ==
    [key |-> key, error |-> "", total_return |-> Zero, cagr |-> Zero,
     max_drawdown |-> Zero, sharpe_ratio |-> Zero]

\* The row the except branch adds for a unit that failed, where it adds one.
ErrorRow(key, err) ==
    [key |-> key, error |-> err, total_return |-> Missing, cagr |-> Missing,
     max_drawdown |-> Missing, sharpe_ratio |-> Missing]

\* Every operation passing over a failed unit without a trace.
OnFailureSkipAll(m) == "skip"

\* run_batch_backtest without its try block.
OnFailureAbortBatch(m) ==
    CASE m = "run_batch" -> "propagate"
      [] m \in {"fixed_start", "cross_market", "single_sweep"} -> "error_row"
      [] m = "dual_grid" -> "nan_cell"
      [] OTHER -> "skip"

\* What the except branch of each operation does with a unit that failed.
OnFailure(m) ==
    CASE m = "run_batch" -> "print"
      [] m \in {"fixed_start", "cross_market", "single_sweep"} -> "error_row"
      [] m = "dual_grid" -> "nan_cell"
      [] OTHER -> "skip"

\* run_batch_backtest takes no progress callback.
HasCallback(m) == m # "run_batch"

\* A callback invoked at the end of the try block, after a unit that ran
\* through only.
CallbackInsideTry(m, failed) == HasCallback(m) /\ ~failed

\* Whether the loop body reaches progress_callback after a unit: the call
\* follows the try statement, whichever branch was taken.
CallbackReached(m, failed) == HasCallback(m)

\* The metrics the grid is asked for: its default, the two others its
\* documentation names, and one more attribute of the metrics object.
GridMetrics == {"sharpe_ratio", "total_return", "cagr", "max_drawdown"}

\* metric_value of the grid: the metric, 0 in place of NaN.
MatrixValue(x) == IF IsNaN(x) THEN Zero ELSE x

HarnessCommon ==
    /\ has_close = TRUE
    /\ start_date = None
    /\ end_date = None
    /\ strategy_state = FreshState
    /\ EngineIdle
    /\ NoDirectCalls
    /\ attempts = <<>>
    /\ rows = <<>>
    /\ printed = <<>>
    /\ progress = <<>>
    /\ completed = 0
    /\ returned = "nothing"
    /\ comparison = None
    /\ base_params = None
    /\ sims = <<>>

RunBatchInit ==
    /\ mode = "run_batch"
    /\ strategy = PureStrategy
    /\ market_data \in {HarnessData, ShortData}
    /\ \E strategies \in SeqsUpTo(ComparedStrategies, MaxUnits) :
           units = [i \in 1..Len(strategies) |->
                       Unit(strategies[i], TRUE, market_data, None, None, NoCell)]
    /\ matrix = <<>>
    /\ mc = <<>>

FixedStartInit ==
    /\ mode = "fixed_start"
    /\ strategy \in SharedStrategies
    /\ market_data = HarnessData
    /\ \E test_dates \in SeqsUpTo(TestDates, MaxUnits) :
           units = [i \in 1..Len(test_dates) |->
                       Unit(strategy, FALSE, market_data, Some(test_dates[i]),
                            Some(SetMax(DOMAIN market_data)), NoCell)]
    /\ matrix = <<>>
    /\ mc = <<>>

RollingInit ==
    /\ mode = "rolling"
    /\ strategy \in BatchStrategies
    /\ market_data \in {HarnessData, GappyData}
    /\ units = <<>>
    /\ matrix = <<>>
    /\ mc = <<>>

CrossMarketInit ==
    /\ mode = "cross_market"
    /\ strategy \in SharedStrategies
    /\ market_data = EmptyData
    /\ \E market_data_dict \in SeqsUpTo(Markets, MaxUnits) :
           units = [i \in 1..Len(market_data_dict) |->
                       Unit(strategy, FALSE, market_data_dict[i], None, None, NoCell)]
    /\ matrix = <<>>
    /\ mc = <<>>

SingleSweepInit ==
    /\ mode = "single_sweep"
    /\ strategy = PureStrategy
    /\ market_data \in {HarnessData, ShortData}
    /\ \E param_values \in SeqsUpTo(ThresholdValues, MaxUnits) :
           units = [i \in 1..Len(param_values) |->
                       Unit(SweepStrategy(param_values[i],
                                          ProfitTakingDefaults.cooldown_periods),
                            TRUE, market_data, None, None, NoCell)]
    /\ matrix = <<>>
    /\ mc = <<>>

\* The grid is asked for the profit-taking strategy over profit_threshold
\* and cooldown_periods, or for the trend filter with ma_period 1 over
\* above_multiplier and below_multiplier on closes at three month starts.
GridStrategy(class, v1, v2) ==
    IF class = "trend"
    THEN TrendFilterStrategy([TrendFilterDefaults EXCEPT !.ma_period = 1,
                                                         !.above_multiplier = v1,
                                                         !.below_multiplier = v2])
    ELSE SweepStrategy(v1, v2)

DualGridInit ==
    /\ mode = "dual_grid"
    /\ strategy = PureStrategy
    /\ \E class \in {"profit", "trend"} :
          /\ market_data = IF class = "trend" THEN MonthStartData ELSE HarnessData
          /\ \E param1_values \in SeqsUpTo(IF class = "trend" THEN AboveValues
                                            ELSE ThresholdValues, MaxAxis),
                param2_values \in SeqsUpTo(IF class = "trend" THEN BelowValues
                                            ELSE CooldownValues, MaxAxis) :
                 LET n1 == Len(param1_values)
                     n2 == Len(param2_values)
                     order == GridOrder(n1, n2)
                 IN  /\ units = [k \in 1..(n1 * n2) |->
                                    Unit(GridStrategy(class, param1_values[order[k][1]],
                                                      param2_values[order[k][2]]),
                                         TRUE, market_data, None, None,
                                         <<order[k][2], order[k][1]>>)]
                     /\ matrix = [c \in (1..n2) \X (1..n1) |-> Zero]
    /\ mc = <<>>

\* (min_duration, max_duration) in days.
Durations == {<<25, 60>>, <<60, 60>>, <<60, 25>>, <<120, 7300>>}
WorkerCounts == {1, 2}

MonteCarloInit ==
    /\ mode = "monte_carlo"
    /\ strategy \in BatchStrategies
    /\ market_data = HarnessData
    /\ units = <<>>
    /\ matrix = <<>>
    /\ \E n \in 0..MaxSimulations, w \in WorkerCounts, d \in Durations :
           mc = [num_simulations |-> n, num_workers |-> w, min_duration |-> d[1],
                 max_duration |-> d[2], drawn |-> 0]

HarnessInit ==
    /\ frequency \in HarnessFrequencies
    /\ HarnessCommon
    /\ \/ RunBatchInit
       \/ FixedStartInit
       \/ RollingInit
       \/ CrossMarketInit
       \/ SingleSweepInit
       \/ DualGridInit
       \/ MonteCarloInit
    /\ hpc = CASE mode = "monte_carlo" -> "sampling"
               [] mode = "rolling" -> "windows"
               [] OTHER -> "running"
    /\ rolling \in (IF mode = "rolling"
                    THEN {[window_days |-> w, step_days |-> st,
                           current_start |-> SetMin(DOMAIN market_data),
                           iterations |-> 0] :
                             w \in WindowDays, st \in StepDays}
                    ELSE {<<>>})
    /\ metric \in (IF mode = "dual_grid" THEN GridMetrics ELSE {""})

engineLocals ==
    <<pc, error, investment_dates, total_shares, total_cost, transactions, outcomes>>

\* One test of the condition of rolling_window_analysis's while loop and,
\* when it holds, the iteration: a window is appended and current_start
\* advances by step_days.  The list of the model holds MaxUnits windows at
\* most; the loop runs on once it is full, its iterations counted modulo 2.
GenerateWindow ==
    /\ mode = "rolling"
    /\ hpc = "windows"
    /\ IF rolling.current_start + rolling.window_days <= SetMax(DOMAIN market_data)
       THEN /\ units' = IF Len(units) < MaxUnits
                         THEN Append(units,
                                     Unit(strategy, FALSE, market_data,
                                          Some(rolling.current_start),
                                          Some(rolling.current_start + rolling.window_days),
                                          NoCell))
                         ELSE units
            /\ rolling' = [rolling EXCEPT !.current_start = @ + rolling.step_days,
                                          !.iterations = (@ + 1) % 2]
            /\ UNCHANGED hpc
       ELSE /\ hpc' = "running"
            /\ UNCHANGED <<units, rolling>>
    /\ UNCHANGED <<engineVars, decideVars, mode, attempts, rows, printed, matrix,
                   progress, completed, returned, metric, comparison, base_params, mc, sims>>

\* One iteration of the loop of a sequential operation: the engine call for
\* the next unit, what is kept of it, and the progress callback.
BatchUnit ==
    /\ hpc = "running"
    /\ mode # "monte_carlo"
    /\ completed < Len(units)
    /\ \E r \in {RunBacktestCall(units[completed + 1].strategy,
                                  IF units[completed + 1].own
                                  THEN FreshState ELSE strategy_state,
                                  units[completed + 1].market_data, TRUE,
                                  units[completed + 1].start_date,
                                  units[completed + 1].end_date, frequency)} :
       LET i == completed + 1
           u == units[i]
           failed == r.error # ""
           policy == OnFailure(mode)
       IN  /\ strategy_state' = IF u.own THEN strategy_state ELSE r.state
           /\ attempts' = Append(attempts, [unit |-> i, error |-> r.error])
           /\ IF failed /\ policy = "propagate"
              THEN /\ hpc' = "raised"
                   /\ returned' = "exception"
                   /\ UNCHANGED <<rows, printed, matrix, progress, completed>>
              ELSE /\ rows' = IF ~failed THEN Append(rows, ResultRow(i, r.metrics))
                              ELSE IF policy = "error_row"
                                   THEN Append(rows, ErrorRow(i, r.error))
                                   ELSE rows
                   /\ printed' = IF failed /\ policy = "print"
                                 THEN Append(printed, [name |-> StrategyName(u.strategy),
                                                       message |-> r.error])
                                 ELSE printed
                   /\ matrix' = IF mode # "dual_grid" THEN matrix
                                ELSE IF ~failed
                                     THEN [matrix EXCEPT
                                              ![u.cell] = MatrixValue(r.metrics[metric])]
                                     ELSE IF policy = "nan_cell"
                                          THEN [matrix EXCEPT ![u.cell] = NaN]
                                          ELSE matrix
                   /\ completed' = completed + 1
                   /\ progress' = IF CallbackReached(mode, failed)
                                  THEN Append(progress, <<completed + 1, Len(units)>>)
                                  ELSE progress
                   /\ UNCHANGED <<hpc, returned>>
    /\ UNCHANGED <<strategy, market_data, has_close, start_date, end_date, frequency>>
    /\ UNCHANGED <<engineLocals, decideVars, mode, units, mc, metric, comparison, base_params, rolling, sims>>

\* The loop is over: the operation returns its results.
BatchReturn ==
    /\ hpc = "running"
    /\ mode # "monte_carlo"
    /\ completed = Len(units)
    /\ hpc' = "returned"
    /\ returned' = "results"
    /\ UNCHANGED <<engineVars, decideVars, mode, units, attempts, rows, printed, matrix,
                   progress, completed, mc, metric, comparison, base_params, rolling, sims>>

\* Python's fixed-point formatting of a float with two decimals: the nearest
\* multiple of 1/100, a tie going to the even one; NaN, the infinities and
\* the values known by their sign only are left as they are.
RoundHalfEven(r) ==
    LET q == (2 * r[1] + r[2]) \div (2 * r[2])
        tie == (2 * r[1] + r[2]) % (2 * r[2]) = 0
    IN  IF tie /\ q % 2 = 1 THEN q - 1 ELSE q

FormatFixed(x) ==
    IF x.k = "num" THEN Num(R(RoundHalfEven(RMul(x.v, RHundred)), 100)) ELSE x

\* The BacktestResults run_batch_backtest returned: the strategy's name and
\* the stored metrics of each successful run, in order.
BatchResults ==
    [n \in 1..Len(rows) |->
        [strategy_name |-> StrategyName(units[rows[n].key].strategy),
         metrics |-> rows[n]]]

\* The column compare_strategies makes of a result.
Column(result) ==
    [total_return |-> FormatFixed(result.metrics.total_return),
     cagr |-> FormatFixed(result.metrics.cagr),
     max_drawdown |-> FormatFixed(result.metrics.max_drawdown),
     sharpe_ratio |-> FormatFixed(result.metrics.sharpe_ratio)]

\* comparison[result.strategy_name] = {...} for each result in turn: a later
\* result overwrites the column of an earlier one of the same name.
CompareTable(results) ==
    [name \in {results[n].strategy_name : n \in 1..Len(results)} |->
        Column(results[SetMax({n \in 1..Len(results) :
                                  results[n].strategy_name = name})])]

\* compare_strategies called with the results of the batch.
CompareStrategies ==
    /\ mode = "run_batch"
    /\ hpc = "returned"
    /\ IsNone(comparison)
    /\ comparison' = Some(CompareTable(BatchResults))
    /\ UNCHANGED <<engineVars, decideVars, mode, units, hpc, attempts, rows, printed,
                   matrix, progress, completed, returned, metric, base_params, rolling, mc, sims>>

(***************************************************************************)
(* monte_carlo_simulation: the sampling loop, the worker pool running the  *)
(* simulations with the one strategy instance, and the caller's thread     *)
(* taking the finished ones as they complete.                              *)
(***************************************************************************)
\* Values random.randint(a, b) can return.
RandInt(a, b) == {a, b} \cup ({a + 30} \cap (a..b))

\* The days left in the data, whatever the longest duration asked for.
MinIgnoringCap(a, b) == a

\* min((data_end - start_date).days, max_duration.days)
Min(a, b) == IF a <= b THEN a ELSE b

\* A simulation submitted to the pool and not yet picked up by a worker.
PendingSim ==
    [status |-> "pending", collected |-> FALSE, phase |-> "track",
     investment_dates |-> <<>>, total_shares |-> RZero, total_cost |-> RZero,
     transactions |-> <<>>, result |-> None]

\* One iteration of the sampling loop: a window is appended or passed over.
MCSample ==
    /\ hpc = "sampling"
    /\ mc.drawn < mc.num_simulations
    /\ mc' = [mc EXCEPT !.drawn = @ + 1]
    /\ LET data_start == SetMin(DOMAIN market_data)
           data_end == SetMax(DOMAIN market_data)
           latest_start == data_end - mc.min_duration
           days_range == latest_start - data_start
       IN  IF days_range <= 0
           THEN UNCHANGED units
           ELSE \E random_days \in RandInt(0, days_range) :
                  LET start == data_start + random_days
                      max_possible_duration == Min(data_end - start, mc.max_duration)
                  IN  IF max_possible_duration < mc.min_duration
                      THEN UNCHANGED units
                      ELSE \E duration_days \in
                                  RandInt(mc.min_duration, max_possible_duration) :
                             units' = Append(units,
                                             Unit(strategy, FALSE, market_data,
                                                  Some(start),
                                                  Some(start + duration_days), NoCell))
    /\ UNCHANGED <<engineVars, decideVars, mode, hpc, attempts, rows, printed, matrix,
                   progress, completed, returned, metric, comparison, base_params, rolling, sims>>

\* The sampling loop is over: every simulation is submitted to the pool.
MCSubmit ==
    /\ hpc = "sampling"
    /\ mc.drawn = mc.num_simulations
    /\ hpc' = "running"
    /\ sims' = [s \in 1..Len(units) |-> PendingSim]
    /\ UNCHANGED <<engineVars, decideVars, mode, units, attempts, rows, printed, matrix,
                   progress, completed, returned, mc, metric, comparison, base_params, rolling>>

Running == {s \in DOMAIN sims : sims[s].status = "running"}
Pending == {s \in DOMAIN sims : sims[s].status = "pending"}

\* run_single_simulation's except branch: the simulation's future holds None.
Failed(sim) == [sim EXCEPT !.status = "done", !.result = None]

\* A free worker takes the oldest pending simulation and runs run_backtest
\* up to the start of its loop.
WorkerStart(s) ==
    /\ hpc = "running"
    /\ mode = "monte_carlo"
    /\ s \in Pending
    /\ s = SetMin(Pending)
    /\ Cardinality(Running) < mc.num_workers
    /\ LET u == units[s]
           err == Validate(u.market_data, TRUE, u.start_date, u.end_date, frequency)
       IN  sims' = [sims EXCEPT ![s] =
                       IF err # ""
                       THEN Failed(@)
                       ELSE [@ EXCEPT !.status = "running",
                                      !.investment_dates =
                                          InvestmentDates(FilterRange(u.market_data,
                                                                      u.start_date,
                                                                      u.end_date),
                                                          frequency)]]
    /\ UNCHANGED <<engineVars, decideVars, mode, units, hpc, attempts, rows, printed,
                   matrix, progress, completed, returned, mc, metric, comparison, base_params, rolling>>

\* A running simulation enters the decide call of its next period: the
\* cooldown tracking is written to the instance.
WorkerTrack(s) ==
    /\ hpc = "running"
    /\ s \in Running
    /\ sims[s].phase = "track"
    /\ Len(sims[s].transactions) < Len(sims[s].investment_dates)
    /\ strategy_state' = DecideTrack(strategy, strategy_state)
    /\ sims' = [sims EXCEPT ![s].phase = "check"]
    /\ UNCHANGED <<strategy, market_data, has_close, start_date, end_date, frequency>>
    /\ UNCHANGED <<engineLocals, decideVars, mode, units, hpc, attempts, rows, printed,
                   matrix, progress, completed, returned, mc, metric, comparison, base_params, rolling>>

\* The rest of the decide call, on the instance's state as it is by now,
\* and the period's transaction.
WorkerTransact(s) ==
    /\ hpc = "running"
    /\ s \in Running
    /\ sims[s].phase = "check"
    /\ LET u == units[s]
           sim == sims[s]
           p == PeriodAfterTrack(strategy, strategy_state,
                                 FilterRange(u.market_data, u.start_date, u.end_date),
                                 RInt(BaseInvestment), sim.total_shares, sim.total_cost,
                                 sim.investment_dates[Len(sim.transactions) + 1])
       IN  /\ strategy_state' = p.state
           /\ sims' = [sims EXCEPT ![s] =
                          IF p.raised
                          THEN Failed(@)
                          ELSE [@ EXCEPT !.phase = "track",
                                         !.total_shares = p.row.total_shares,
                                         !.total_cost = p.row.total_cost,
                                         !.transactions = Append(@, p.row)]]
    /\ UNCHANGED <<strategy, market_data, has_close, start_date, end_date, frequency>>
    /\ UNCHANGED <<engineLocals, decideVars, mode, units, hpc, attempts, rows, printed,
                   matrix, progress, completed, returned, mc, metric, comparison, base_params, rolling>>

\* The loop of a running simulation is over: its future holds the result.
WorkerFinish(s) ==
    /\ hpc = "running"
    /\ s \in Running
    /\ Len(sims[s].transactions) = Len(sims[s].investment_dates)
    /\ sims' = [sims EXCEPT ![s] =
                   [@ EXCEPT !.status = "done",
                             !.result = Some(ResultRow(s, CalculateAllMetrics(
                                                              sims[s].transactions)))]]
    /\ UNCHANGED <<engineVars, decideVars, mode, units, hpc, attempts, rows, printed,
                   matrix, progress, completed, returned, mc, metric, comparison, base_params, rolling>>

\* A counter that counts the successful simulations only.
CompletedAfterSuccessOnly(n, result) == IF IsNone(result) THEN n ELSE n + 1

\* completed[0] += 1
CompletedAfter(n, result) == n + 1

\* as_completed hands the caller's thread a finished simulation: its result
\* is kept if there is one, the counter moves and the callback is called.
Collect(s) ==
    /\ hpc = "running"
    /\ mode = "monte_carlo"
    /\ s \in DOMAIN sims
    /\ sims[s].status = "done"
    /\ ~sims[s].collected
    /\ sims' = [sims EXCEPT ![s].collected = TRUE]
    /\ attempts' = Append(attempts,
                          [unit |-> s,
                           error |-> IF IsNone(sims[s].result) THEN "failed" ELSE ""])
    /\ rows' = IF IsNone(sims[s].result) THEN rows ELSE Append(rows, Get(sims[s].result))
    /\ completed' = CompletedAfter(completed, sims[s].result)
    /\ progress' = Append(progress, <<completed', Len(units)>>)
    /\ UNCHANGED <<engineVars, decideVars, mode, units, hpc, printed, matrix, returned, mc, metric, comparison, base_params, rolling>>

\* Statistics taken of whatever the results are.
AggregateUnguarded(results) == IF results = <<>> THEN "exception" ELSE "statistics"

\* if not results: return {'error': 'No successful simulations'}, else the
\* statistics of the results.
Aggregate(results) == IF results = <<>> THEN "error_marker" ELSE "statistics"

\* Every future has been taken: the pool is shut down and the statistics
\* are returned.
MCReturn ==
    /\ hpc = "running"
    /\ mode = "monte_carlo"
    /\ \A s \in DOMAIN sims : sims[s].collected
    /\ returned' = Aggregate(rows)
    /\ hpc' = IF returned' = "exception" THEN "raised" ELSE "returned"
    /\ UNCHANGED <<engineVars, decideVars, mode, units, attempts, rows, printed, matrix,
                   progress, completed, mc, metric, comparison, base_params, rolling, sims>>

NextHarness ==
    \/ GenerateWindow
    \/ BatchUnit
    \/ BatchReturn
    \/ CompareStrategies
    \/ MCSample
    \/ MCSubmit
    \/ \E s \in DOMAIN sims : WorkerStart(s)
    \/ \E s \in DOMAIN sims : WorkerTrack(s)
    \/ \E s \in DOMAIN sims : WorkerTransact(s)
    \/ \E s \in DOMAIN sims : WorkerFinish(s)
    \/ \E s \in DOMAIN sims : Collect(s)
    \/ MCReturn

SpecHarness == HarnessInit /\ [][NextHarness]_vars

(***************************************************************************)
(* Properties of the engine and the metrics.                               *)
(***************************************************************************)
Succeeded(o) == o.error = ""

\* The cost basis before row i of a ledger.
CostBefore(ledger, i) == IF i = 1 THEN RZero ELSE ledger[i - 1].total_cost

\* C1: in the ledger of any run, total_cost never decreases from one
\* transaction to the next, and after each period it is the total before the
\* period plus base_investment x multiplier, whether or not the period sold.
C1_MonotonicCostBasis ==
    \A i \in 1..Len(transactions) :
        /\ RLe(CostBefore(transactions, i), transactions[i].total_cost)
        /\ transactions[i].total_cost =
               RAdd(CostBefore(transactions, i),
                    RMul(RInt(BaseInvestment), transactions[i].multiplier))

\* A ledger in which a period sold shares and a later period was recorded.
C1_Witness ==
    \E i \in 1..Len(transactions) :
        /\ i < Len(transactions)
        /\ RPos(transactions[i].shares_sold)
        /\ RPos(transactions[i].investment)

\* C6: runs made in sequence with one strategy instance, the same price
\* series and the same arguments end the same way with identical ledgers.
C6_RunsIndependent ==
    \A i, j \in 1..Len(outcomes) :
        /\ outcomes[i].error = outcomes[j].error
        /\ outcomes[i].transactions = outcomes[j].transactions

ZeroCostThroughout(ledger) ==
    /\ Len(ledger) > 0
    /\ \A i \in 1..Len(ledger) : RIsZero(ledger[i].total_cost)

\* C9: the metrics of a ledger whose total_cost is 0 in every row have
\* total_return, CAGR, Sharpe, Sortino and Calmar all exactly 0 (so none is
\* NaN), and computing them does not raise.
C9_ZeroCostMetrics ==
    \A i \in 1..Len(outcomes) :
        (Succeeded(outcomes[i]) /\ ZeroCostThroughout(outcomes[i].transactions)) =>
            /\ outcomes[i].metrics.total_return = Zero
            /\ outcomes[i].metrics.cagr = Zero
            /\ outcomes[i].metrics.sharpe_ratio = Zero
            /\ outcomes[i].metrics.sortino_ratio = Zero
            /\ outcomes[i].metrics.calmar_ratio = Zero

\* A completed run whose ledger has total_cost 0 in every row.
C9_Witness ==
    \E i \in 1..Len(outcomes) :
        /\ Succeeded(outcomes[i])
        /\ Len(outcomes[i].transactions) >= 2
        /\ ZeroCostThroughout(outcomes[i].transactions)

FloatFields ==
    {"total_return", "total_return_amount", "cagr", "max_drawdown", "volatility",
     "downside_volatility", "var_99", "sharpe_ratio", "sortino_ratio", "calmar_ratio",
     "average_cost", "total_invested", "final_value", "total_shares",
     "investment_years", "win_rate"}

\* C10: every field of the metrics of every ledger is a finite number, none
\* is NaN.
C10_MetricsFinite ==
    \A i \in 1..Len(outcomes) :
        Succeeded(outcomes[i]) =>
            /\ \A f \in FloatFields : IsFinite(outcomes[i].metrics[f])
            /\ \A y \in DOMAIN outcomes[i].metrics.annual_returns :
                   IsFinite(outcomes[i].metrics.annual_returns[y])

(***************************************************************************)
(* Properties of the profit-taking strategy.                               *)
(***************************************************************************)
IsSell(call) == RPos(call.decision.sell_percentage)

\* C7: over any sequence of decide calls on one profit-taking instance, a
\* call returns a sell only when the cumulative return is at least
\* profit_threshold, shares are held, and no earlier call sold or the last
\* one that did is at least cooldown_periods calls back; a sell leaves the
\* counter at 0, so within the cooldown no call sells whatever the return.
C7_SellOnlyOutsideCooldown ==
    \A i \in 1..Len(calls) :
        IsSell(calls[i]) =>
            /\ RGe(RDiv(calls[i].portfolio_state.cumulative_return, RHundred),
                   strategy.params.profit_threshold)
            /\ RPos(calls[i].portfolio_state.total_shares)
            /\ \A j \in 1..(i - 1) :
                   IsSell(calls[j]) => i - j >= strategy.params.cooldown_periods
            /\ calls[i].state.periods_since_sell = Some(0)
            /\ calls[i].state.last_sell_date = Some(i)

\* A sell, then a call within the cooldown that did not sell although the
\* return was above the threshold and shares were held, then a second sell.
C7_Witness ==
    \E i, j, k \in 1..Len(calls) :
        /\ i < j /\ j < k
        /\ IsSell(calls[i])
        /\ ~IsSell(calls[j])
        /\ calls[j].portfolio_state.cumulative_return = RInt(50)
        /\ RPos(calls[j].portfolio_state.total_shares)
        /\ IsSell(calls[k])

(***************************************************************************)
(* Properties of the batch operations.                                     *)
(***************************************************************************)
Ok(attempt) == attempt.error = ""
NotOk(attempt) == attempt.error # ""

\* The units whose engine call went through, and those whose call raised,
\* in the order the operation took them.
SucceededUnits == [k \in 1..Len(SelectSeq(attempts, Ok)) |-> SelectSeq(attempts, Ok)[k].unit]
FailedUnits == [k \in 1..Len(SelectSeq(attempts, NotOk)) |-> SelectSeq(attempts, NotOk)[k].unit]

RowKeys == [k \in 1..Len(rows) |-> rows[k].key]

\* Every requested unit was handed to the engine, once.
EveryUnitAttempted ==
    /\ Len(attempts) = Len(units)
    /\ {attempts[k].unit : k \in 1..Len(attempts)} = 1..Len(units)

ErrorRowModes == {"fixed_start", "cross_market", "single_sweep"}

ReachedTotal == {k \in 1..Len(progress) : progress[k][1] = Len(units)}

\* C4: in monte_carlo_simulation the completed values passed to the progress
\* callback never decrease, the total passed is the number N of simulations
\* dispatched, and for N >= 1 the value N is passed exactly once by the time
\* the operation returns, whatever the pool size and the completion order.
C4_ProgressMonotonic ==
    mode = "monte_carlo" =>
        /\ \A k, l \in 1..Len(progress) : k < l => progress[k][1] <= progress[l][1]
        /\ \A k \in 1..Len(progress) : progress[k][2] = Len(units)
        /\ Cardinality(ReachedTotal) <= 1
        /\ (hpc = "returned" /\ Len(units) >= 1) => Cardinality(ReachedTotal) = 1

\* Two simulations on two workers, taken in the reverse of the order they
\* were submitted in, one failed and one successful.
C4_Witness ==
    /\ mode = "monte_carlo"
    /\ hpc = "returned"
    /\ mc.num_workers = 2
    /\ Len(units) = 2
    /\ attempts[1].unit = 2
    /\ \E k, l \in 1..Len(attempts) : Ok(attempts[k]) /\ NotOk(attempts[l])
    /\ progress = <<<<1, 2>>, <<2, 2>>>>

\* C5: while two simulations of monte_carlo_simulation are running on the
\* pool, no step of either changes the strategy instance's private state
\* (cooldown counter, last-sell marker) that the other one reads.
C5_NoSharedStrategyState ==
    [][(mode = "monte_carlo" /\ Cardinality(Running) >= 2)
           => strategy_state' = strategy_state]_vars

\* C8: monte_carlo_simulation never raises; it returns the
\* no-successful-simulations marker exactly when no simulation succeeded,
\* every dispatched one having failed or none having been sampled, and
\* statistics only of a non-empty set of successful runs.
C8_NoSuccessfulSimulations ==
    mode = "monte_carlo" =>
        /\ hpc # "raised"
        /\ hpc = "returned" =>
               /\ returned \in {"error_marker", "statistics"}
               /\ returned = "error_marker" <=>
                      \A s \in DOMAIN sims : IsNone(sims[s].result)
               /\ returned = "statistics" => rows # <<>>

\* Two simulations were dispatched, both failed, and the marker came back.
C8_Witness ==
    /\ mode = "monte_carlo"
    /\ hpc = "returned"
    /\ Len(units) = 2
    /\ \A s \in DOMAIN sims : IsNone(sims[s].result)
    /\ returned = "error_marker"

(***************************************************************************)
(* Properties of run_backtest's validation.                                *)
(***************************************************************************)
\* The series run_backtest resamples, and the days it covers.
Window == FilterRange(market_data, start_date, end_date)
Span(data) == SetMax(DOMAIN data) - SetMin(DOMAIN data)

PeriodDays(freq) ==
    CASE freq = "W" -> DaysPerWeek
      [] freq = "Q" -> DaysPerMonth * MonthsPerQuarter
      [] OTHER -> DaysPerMonth

Bins(data, freq) == {BinLabel(freq, d) : d \in DOMAIN data}

Insufficient == "Insufficient data points for backtest"

\* C11 (as stated): no run on a series that covers less than one full
\* period of the frequency gets as far as its loop or returns a result, and
\* no result has a ledger of fewer than 2 transactions.
C11_ShortSeriesFails ==
    /\ (pc \in {"loop", "done"} /\ DOMAIN Window # {}) =>
           Span(Window) >= PeriodDays(frequency)
    /\ \A i \in 1..Len(outcomes) :
           Succeeded(outcomes[i]) => Len(outcomes[i].transactions) >= 2

\* C11 (amended): for each frequency, run_backtest on a series with a close
\* column whose days, after the date filter, all fall in one resampling
\* period of the frequency fails with "Insufficient data points for
\* backtest"; a series that covers less than one full period but straddles
\* a period boundary has 2 investment dates and is run.  run_backtest never
\* enters its loop with fewer than 2 investment dates and never returns a
\* result whose ledger has fewer than 2 transactions.
C11_OneBinSeriesFails ==
    /\ (has_close /\ Cardinality(Bins(Window, frequency)) = 1) =>
           /\ pc \in {"idle", "raised"}
           /\ \A i \in 1..Len(outcomes) : outcomes[i].error = Insufficient
    /\ pc = "loop" => Len(investment_dates) >= 2
    /\ \A i \in 1..Len(outcomes) :
           Succeeded(outcomes[i]) => Len(outcomes[i].transactions) >= 2

\* A run refused for want of investment dates on a series of several days
\* within one period.
C11_Witness ==
    /\ Cardinality(DOMAIN Window) >= 2
    /\ Cardinality(Bins(Window, frequency)) = 1
    /\ Len(outcomes) >= 1
    /\ outcomes[1].error = Insufficient

\* The message run_backtest owes an input that is empty, has no close
\* column or is empty once filtered; "" for any other input.
InvalidInput ==
    IF DOMAIN market_data = {} THEN "Market data is empty"
    ELSE IF ~has_close THEN "Market data must have 'Close' column"
    ELSE IF DOMAIN Window = {} THEN "No data in specified date range"
    ELSE ""

\* C12: when the price series is empty, has no close column or is empty
\* after the restriction to [start_date, end_date], every call of
\* run_backtest raises the matching error without entering its loop, returns
\* no ledger, and the strategy's private state stays as it was before the
\* call, no decide call having been made.
C12_InvalidInputRaisesFirst ==
    InvalidInput # "" =>
        /\ pc \in {"idle", "raised"}
        /\ strategy_state = FreshState
        /\ transactions = <<>>
        /\ \A i \in 1..Len(outcomes) :
               /\ outcomes[i].error = InvalidInput
               /\ outcomes[i].transactions = <<>>

\* A call on a non-empty series, with a profit-taking strategy, that the
\* date filter left empty, and that raised.
C12_Witness ==
    /\ DOMAIN market_data # {}
    /\ has_close
    /\ DOMAIN Window = {}
    /\ strategy.kind = "profit"
    /\ pc = "raised"
    /\ Len(outcomes) = MaxRuns

(***************************************************************************)
(* Direct calls on the stateless strategies.                               *)
(***************************************************************************)
\* C13: every call of the Pure strategy's calculate_investment, whatever the
\* price, date, history, portfolio state and constructor parameters, returns
\* investment_multiplier exactly 1 and sell_percentage exactly 0 without
\* raising, and leaves the instance's state as it was.
C13_PureAlwaysNeutral ==
    strategy.kind = "pure" =>
        \A i \in 1..Len(calls) :
            /\ ~calls[i].decision.raised
            /\ calls[i].decision.investment_multiplier = ROne
            /\ calls[i].decision.sell_percentage = RZero
            /\ calls[i].state = calls[i].before
            /\ strategy_state = FreshState

\* A Pure instance built with a parameter, called at price 0 in the middle of
\* a four-day history with a portfolio that is 50% up.
C13_Witness ==
    /\ strategy = PureStrategyWith([investment_multiplier |-> <<2, 1>>])
    /\ DOMAIN market_data = 1..4
    /\ calls # <<>>
    /\ calls[1].current_price = RZero
    /\ calls[1].current_date = 2
    /\ calls[1].portfolio_state.cumulative_return = RInt(50)

\* The closes a call may read: those dated on or before the date of the call.
ClosesUpTo(c) == RelevantPrices(market_data, c.current_date)

\* The highest of the last lookback_period closes on or before the call.
TrailingHigh(c) == SeqMax(TailN(ClosesUpTo(c), strategy.params.lookback_period))

\* The fall of the call's price from the trailing high, as a fraction of it.
Drop(c) == RDiv(RSub(RInt(TrailingHigh(c)), c.current_price), RInt(TrailingHigh(c)))

\* C14: a dip-buying call with thresholds t1 < t2, at least 2 closes on or
\* before its date and a positive trailing high returns multiplier_2 when the
\* drop is at least t2, multiplier_1 when it is at least t1 and below t2, and
\* 1 when it is below t1; with the 10%/20% tiers a 15% drop gives the tier-1
\* multiplier and a 25% drop the tier-2 multiplier.  Every dip-buying call
\* returns sell_percentage 0.
C14_DipTiers ==
    strategy.kind = "dip" =>
        \A i \in 1..Len(calls) :
            LET c == calls[i]
                t1 == strategy.params.dip_threshold_1
                t2 == strategy.params.dip_threshold_2
            IN  /\ c.decision.sell_percentage = RZero
                /\ (RLt(t1, t2) /\ Len(ClosesUpTo(c)) >= 2 /\ TrailingHigh(c) > 0) =>
                      /\ ~c.decision.raised
                      /\ RGe(Drop(c), t2) =>
                            c.decision.investment_multiplier = strategy.params.multiplier_2
                      /\ (RGe(Drop(c), t1) /\ RLt(Drop(c), t2)) =>
                            c.decision.investment_multiplier = strategy.params.multiplier_1
                      /\ RLt(Drop(c), t1) => c.decision.investment_multiplier = ROne
                      /\ (t1 = <<1, 10>> /\ t2 = <<1, 5>> /\ Drop(c) = <<3, 20>>) =>
                            c.decision.investment_multiplier = strategy.params.multiplier_1
                      /\ (t1 = <<1, 10>> /\ t2 = <<1, 5>> /\ Drop(c) = <<1, 4>>) =>
                            c.decision.investment_multiplier = strategy.params.multiplier_2

\* The default tiers, a trailing high of 100 and a call at 75: a 25% drop,
\* past both thresholds, answered with the tier-2 multiplier.
C14_Witness ==
    /\ strategy = DipBuyingStrategy([DipBuyingDefaults EXCEPT !.lookback_period = 2])
    /\ calls # <<>>
    /\ Len(ClosesUpTo(calls[1])) >= 2
    /\ TrailingHigh(calls[1]) = 100
    /\ Drop(calls[1]) = <<1, 4>>
    /\ calls[1].decision.investment_multiplier = <<2, 1>>

\* The number of closes the strategy of the run asks for before it departs
\* from the neutral decision.
HistoryNeeded ==
    CASE strategy.kind = "dip" -> 2
      [] strategy.kind = "trend" -> strategy.params.ma_period
      [] strategy.kind = "volatility" ->
            SetMax({strategy.params.volatility_window,
                    strategy.params.lookback_period}) + 1
      [] OTHER -> 0

\* C15: a dip-buying, trend-filter or volatility call that has fewer closes on
\* or before its date than the strategy needs (2, ma_period,
\* max(volatility_window, lookback_period) + 1), none at all included,
\* returns multiplier 1 and sell 0 and does not raise.
C15_ShortHistoryNeutral ==
    strategy.kind \in {"dip", "trend", "volatility"} =>
        \A i \in 1..Len(calls) :
            Len(ClosesUpTo(calls[i])) < HistoryNeeded =>
                /\ ~calls[i].decision.raised
                /\ calls[i].decision.investment_multiplier = ROne
                /\ calls[i].decision.sell_percentage = RZero

\* A dip-buying call at 75 whose date has one close of 100 behind it, in a
\* series of four closes: a 25% drop answered with the neutral decision.
C15_Witness ==
    /\ strategy.kind = "dip"
    /\ DOMAIN market_data = 1..4
    /\ calls # <<>>
    /\ ClosesUpTo(calls[1]) = <<100>>
    /\ calls[1].current_price = RInt(75)
    /\ calls[1].decision = NeutralDecision

\* The value a call of the run's strategy divides by, None when the history
\* is too short for the strategy to compute it: the trailing high, the
\* moving average, the average volatility.
Reference(c) ==
    IF Len(ClosesUpTo(c)) < HistoryNeeded
    THEN None
    ELSE CASE strategy.kind = "dip" -> Some(RInt(TrailingHigh(c)))
           [] strategy.kind = "trend" ->
                 Some(CurrentMA(ClosesUpTo(c), strategy.params.ma_period,
                                strategy.params.ma_type))
           [] strategy.kind = "volatility" ->
                 MeanOfNumbers(TailN(Volatility(ClosesUpTo(c),
                                                strategy.params.volatility_window),
                                     strategy.params.lookback_period))
           [] OTHER -> None

\* C16: a dip-buying, trend-filter or volatility call whose reference value
\* (trailing high, moving average, average volatility) is zero or negative
\* returns the neutral decision, multiplier 1 and sell 0, whatever the
\* multipliers the instance is configured with.
C16_NonPositiveReferenceNeutral ==
    \A i \in 1..Len(calls) :
        (~IsNone(Reference(calls[i])) /\ ~RPos(Get(Reference(calls[i])))) =>
            calls[i].decision = NeutralDecision

\* C17: the history a period of a run passes to calculate_investment holds
\* only closes of the series dated on or before the period's investment date;
\* and the decision of every call, made by the engine or directly with a
\* series that goes on after current_date, is the decision the same call
\* returns on the series cut off at current_date: no close dated after
\* current_date has a part in it.
C17_NoLookahead ==
    \A i \in 1..Len(calls) :
        LET c == calls[i]
        IN  /\ c.via = "engine" =>
                  /\ DOMAIN c.historical_data =
                        {day \in DOMAIN market_data : day <= c.current_date}
                  /\ \A day \in DOMAIN c.historical_data :
                        c.historical_data[day] = market_data[day]
            /\ c.decision =
                  Decide(strategy, c.before, c.current_price, c.current_date,
                         Historical(c.historical_data, c.current_date),
                         c.portfolio_state).decision

\* A direct dip-buying call dated day 2 at price 90 on a series that rises to
\* 120 on days 3 and 4: 10% below the high of 100 it may see (tier 1), 25%
\* below the later high.
C17_Witness ==
    /\ strategy = DipBuyingStrategy(DipBuyingDefaults)
    /\ market_data = <<100, 100, 120, 120>>
    /\ calls # <<>>
    /\ calls[1].via = "direct"
    /\ calls[1].current_date = 2
    /\ calls[1].current_price = RInt(90)
    /\ calls[1].decision.investment_multiplier = <<3, 2>>

(***************************************************************************)
(* Runs of the Pure strategy.                                              *)
(***************************************************************************)
\* The ledger's closes are all the same.
ConstantPrice(ledger) ==
    \A i \in 1..Len(ledger) : ledger[i].price = ledger[1].price

\* One close of 100 at the start of each of twelve months, and the monthly
\* run of the Pure strategy on it.
TwelveMonths == [day \in {DaysPerMonth * m : m \in 0..(MonthsPerYear - 1)} |-> 100]
TwelveMonthRun ==
    RunBacktestCall(PureStrategy, FreshState, TwelveMonths, TRUE, None, None, "M")

\* C18: a run of the Pure strategy over n investment periods with base
\* investment B ends with total_cost n * B; when the price is the same P in
\* every period it ends with total_shares n * B / P, current_value equal to
\* total_cost and total_return 0.  B = 1000 and P = 100 over twelve months
\* give total_cost 12000, total_shares 120, final value 12000, return 0 (the
\* twelve-month run is computed wherever a run of the Pure strategy has
\* returned).
C18_PureRunTotals ==
    /\ strategy = PureStrategy =>
          \A r \in 1..Len(outcomes) :
              outcomes[r].error = "" =>
                  LET ledger == outcomes[r].transactions
                      n == Len(ledger)
                      m == outcomes[r].metrics
                  IN  /\ n >= 2
                      /\ ledger[n].total_cost = RInt(n * BaseInvestment)
                      /\ m.total_invested = Num(RInt(n * BaseInvestment))
                      /\ ConstantPrice(ledger) =>
                            /\ ledger[n].total_shares =
                                  RDiv(RInt(n * BaseInvestment), ledger[1].price)
                            /\ ledger[n].current_value = ledger[n].total_cost
                            /\ ledger[n].return_pct = RZero
                            /\ m.total_shares = Num(ledger[n].total_shares)
                            /\ m.final_value = m.total_invested
                            /\ m.total_return = Zero
    /\ (strategy = PureStrategy /\ pc = "done") =>
          \A run \in {TwelveMonthRun} :
              /\ run.error = ""
              /\ run.metrics.total_trades = MonthsPerYear
              /\ run.metrics.total_invested = Num(RInt(12000))
              /\ run.metrics.total_shares = Num(RInt(120))
              /\ run.metrics.final_value = Num(RInt(12000))
              /\ run.metrics.total_return = Zero

\* A finished run of the Pure strategy over three months at a close of 100.
C18_Witness ==
    /\ strategy = PureStrategy
    /\ outcomes # <<>>
    /\ outcomes[1].error = ""
    /\ Len(outcomes[1].transactions) = 3
    /\ ConstantPrice(outcomes[1].transactions)
    /\ outcomes[1].transactions[3].total_cost = RInt(3000)
    /\ outcomes[1].transactions[3].total_shares = RInt(30)

(***************************************************************************)
(* The tables and the matrix of the batch operations.                      *)
(***************************************************************************)
\* The row the grid's table keeps of a unit.
RowOf(i) == rows[CHOOSE n \in 1..Len(rows) : rows[n].key = i]

\* C19: when dual_param_grid_search has returned, the matrix has one cell
\* [j][i] for every pair of a param2 value j and a param1 value i, the cell
\* of every run that failed is not-a-number, and the cell of every run that
\* succeeded is a number and is the chosen metric of that run.
C19_MatrixCells ==
    (mode = "dual_grid" /\ hpc = "returned") =>
        /\ DOMAIN matrix = {units[k].cell : k \in 1..Len(units)}
        /\ \A k \in 1..Len(attempts) :
               LET cell == matrix[units[attempts[k].unit].cell]
               IN  /\ NotOk(attempts[k]) <=> IsNaN(cell)
                   /\ Ok(attempts[k]) => cell = RowOf(attempts[k].unit)[metric]

MetricColumns == {"total_return", "cagr", "max_drawdown", "sharpe_ratio"}

\* C20: test_fixed_start_points and cross_market_test never raise because a
\* run failed; when they have returned, every test date / market has been
\* run, in the order given, and the table holds exactly one row for each, in
\* that order: the row of a failed run carries the error message and no
\* metric, the row of a successful run carries metrics and no error.
C20_OneRowPerDateAndMarket ==
    mode \in {"fixed_start", "cross_market"} =>
        /\ hpc # "raised"
        /\ Len(rows) = Len(attempts)
        /\ \A n \in 1..Len(attempts) :
               /\ attempts[n].unit = n
               /\ rows[n].key = n
               /\ NotOk(attempts[n]) =>
                      /\ rows[n].error = attempts[n].error
                      /\ \A f \in MetricColumns : rows[n][f] = Missing
               /\ Ok(attempts[n]) =>
                      /\ rows[n].error = ""
                      /\ \A f \in MetricColumns : rows[n][f] # Missing
        /\ hpc = "returned" => Len(rows) = Len(units)

\* A fixed-start-point test over three dates that has returned: the run of
\* the first date failed, the two after it were made and succeeded.
C20_Witness ==
    /\ mode = "fixed_start"
    /\ hpc = "returned"
    /\ Len(units) = 3
    /\ Len(rows) = 3
    /\ NotOk(attempts[1])
    /\ Ok(attempts[2])
    /\ Ok(attempts[3])
    /\ rows[1].error # ""

SequentialModes == {"fixed_start", "rolling", "cross_market", "single_sweep", "dual_grid"}

\* C21: in fixed start points, the sliding window, cross-market, the
\* single-parameter sweep and the grid, the progress callback has been
\* invoked once for each unit taken so far, failed or not, the k-th time with
\* (k, total), total being the number of units requested; when the operation
\* has returned completed has taken the values 1, 2, ..., total in order.
C21_ProgressAfterEachUnit ==
    mode \in SequentialModes =>
        /\ Len(progress) = Len(attempts)
        /\ \A k \in 1..Len(progress) :
               /\ progress[k] = <<k, Len(units)>>
               /\ attempts[k].unit = k
        /\ hpc = "returned" => Len(progress) = Len(units)

\* A sliding-window analysis of two windows that has returned, the first
\* window having succeeded and the second failed.
C21_Witness ==
    /\ mode = "rolling"
    /\ hpc = "returned"
    /\ Len(units) = 2
    /\ Ok(attempts[1])
    /\ NotOk(attempts[2])
    /\ progress = <<<<1, 2>>, <<2, 2>>>>

\* C22: the table compare_strategies makes of k results has exactly k
\* columns, and for each result the column under its strategy's name holds
\* that result's own stored metrics, as formatted; the results are as they
\* were.
C22_OneColumnPerResult ==
    ~IsNone(comparison) =>
        LET table == Get(comparison)
        IN  /\ Cardinality(DOMAIN table) = Len(BatchResults)
            /\ \A n \in 1..Len(BatchResults) :
                   /\ BatchResults[n].strategy_name \in DOMAIN table
                   /\ table[BatchResults[n].strategy_name] = Column(BatchResults[n])

\* The decision the strategy gives in the period the loop is about to run.
DecisionOfNextPeriod ==
    LET entry == investment_dates[Len(transactions) + 1]
        data == FilterRange(market_data, start_date, end_date)
    IN  Decide(strategy, strategy_state, RInt(entry.price), entry.date,
               Historical(data, entry.date),
               PortfolioState(total_shares, total_cost, RInt(entry.price))).decision

\* The row of a period at price 85 in which the dip strategy, after a high
\* of 100, asks for its first tier.
DipTierPeriodAt85 ==
    Transact(RInt(BaseInvestment),
             DipBuyingDecide(DipBuyingDefaults, RInt(85), 2, (1 :> 100 @@ 2 :> 85)),
             RInt(10), RInt(BaseInvestment), 2, RInt(85))

\* C23: in each period the sell is applied before the buy: with s shares
\* held before the period, decision (m, p) and price P, the transaction
\* records shares_sold = s * p if p > 0 and s > 0 (else 0), sell_proceeds =
\* shares_sold * P, investment = base * m, shares_bought = investment / P,
\* total_shares = s - shares_sold + shares_bought and current_value =
\* total_shares * P; the dip-tier period at price 85 records investment 1500
\* and shares_bought 1500/85.
C23_SellBeforeBuy ==
    [][Len(transactions') = Len(transactions) + 1 =>
           LET row == transactions'[Len(transactions')]
               s == total_shares
               m == DecisionOfNextPeriod.investment_multiplier
               p == DecisionOfNextPeriod.sell_percentage
               P == row.price
               sold == IF RPos(p) /\ RPos(s) THEN RMul(s, p) ELSE RZero
           IN  /\ P = RInt(investment_dates[Len(transactions')].price)
               /\ row.shares_sold = sold
               /\ row.sell_proceeds = RMul(sold, P)
               /\ row.investment = RMul(RInt(BaseInvestment), m)
               /\ row.multiplier = m
               /\ row.shares_bought = RDiv(row.investment, P)
               /\ row.total_shares = RAdd(RSub(s, sold), row.shares_bought)
               /\ row.current_value = RMul(row.total_shares, P)
               /\ total_shares' = row.total_shares
               /\ DipTierPeriodAt85.multiplier = <<3, 2>>
               /\ DipTierPeriodAt85.investment = RInt(1500)
               /\ DipTierPeriodAt85.shares_bought = R(1500, 85)]_vars

\* A period that sold part of a holding and bought in the same transaction.
C23_Witness ==
    /\ Len(transactions) >= 2
    /\ LET row == transactions[Len(transactions)]
           prev == transactions[Len(transactions) - 1]
       IN  /\ RPos(row.shares_sold)
           /\ RPos(row.shares_bought)
           /\ row.total_shares = RAdd(RSub(prev.total_shares, row.shares_sold),
                                      row.shares_bought)
           /\ row.shares_sold # RMul(RAdd(prev.total_shares, row.shares_bought),
                                     <<1, 2>>)

\* The series run_backtest works on, after its date filters.
RunData == FilterRange(market_data, start_date, end_date)

\* The trading days of the run at or after a date.
DaysFrom(date) == {d \in DOMAIN RunData : d >= date}

\* C24: for each frequency, the price of every transaction is the close of
\* the first trading day at or after the period's boundary date, which is
\* the date recorded on the transaction; that day is the latest one of the
\* history handed to decide for the period; and a transaction's period holds
\* data.
C24_PriceAtFirstTradingDay ==
    \A k \in 1..Len(transactions) :
        LET row == transactions[k]
            historical == Historical(RunData, row.date)
        IN  /\ \E d \in DOMAIN RunData : BinLabel(frequency, d) = row.date
            /\ DaysFrom(row.date) # {}
            /\ row.price = RInt(RunData[SetMin(DaysFrom(row.date))])
            /\ DOMAIN historical # {}
            /\ SetMax(DOMAIN historical) = SetMin(DaysFrom(row.date))

\* C25: the ledger of a run starts empty and grows by exactly one row per
\* period, the row of that period's investment date; no step of the run
\* changes or removes a row already appended; and the ledger of a completed
\* run, as the result holds it after the metrics were computed, is the
\* list the loop made: one transaction per investment date, in strictly
\* ascending date order.
C25_LedgerAppendOnly ==
    [][/\ pc' = "loop" /\ pc # "loop" => transactions' = <<>>
       /\ pc = "loop" =>
              \/ transactions' = transactions
              \/ /\ Len(transactions') = Len(transactions) + 1
                 /\ SubSeq(transactions', 1, Len(transactions)) = transactions
                 /\ transactions'[Len(transactions')].date =
                        investment_dates[Len(transactions')].date
       /\ pc = "loop" /\ pc' = "done" =>
              LET ledger == outcomes'[Len(outcomes')].transactions
              IN  /\ ledger = transactions
                  /\ Len(ledger) = Len(investment_dates)
                  /\ \A k \in 1..Len(ledger) : ledger[k].date = investment_dates[k].date
                  /\ \A k \in 1..(Len(ledger) - 1) : ledger[k].date < ledger[k + 1].date]_vars

\* A completed run of three periods, after an earlier run of the instance.
C25_Witness ==
    /\ pc = "done"
    /\ Len(outcomes) = 2
    /\ Len(transactions) = 3
    /\ outcomes[2].transactions = transactions
    /\ transactions[1].date < transactions[2].date
    /\ transactions[2].date < transactions[3].date

\* C26: every window monte_carlo_simulation dispatches lies within the data,
\* data_start <= start and end <= data_end, and lasts between min_duration
\* and max_duration days; a draw for which no such duration exists is
\* passed over, so the simulations dispatched are never more than
\* num_simulations, and none when no window can satisfy the bounds.
C26_WindowsWithinBounds ==
    mode = "monte_carlo" =>
        LET data_start == SetMin(DOMAIN market_data)
            data_end == SetMax(DOMAIN market_data)
        IN  /\ \A k \in 1..Len(units) :
                   LET start == Get(units[k].start_date)
                       end == Get(units[k].end_date)
                   IN  /\ data_start <= start
                       /\ end <= data_end
                       /\ mc.min_duration <= end - start
                       /\ end - start <= mc.max_duration
            /\ Len(units) <= mc.drawn
            /\ mc.drawn <= mc.num_simulations
            /\ Len(sims) <= mc.num_simulations
            /\ (\/ mc.min_duration > mc.max_duration
                \/ mc.min_duration >= data_end - data_start) => units = <<>>

\* Two windows dispatched to the pool, one of them starting after the first
\* day of the data and ending on the last.
C26_Witness ==
    /\ mode = "monte_carlo"
    /\ hpc = "running"
    /\ Len(sims) = 2
    /\ Get(units[1].start_date) = 1
    /\ Get(units[1].end_date) = 26
    /\ Get(units[2].start_date) = 31
    /\ Get(units[2].end_date) = 91

\* x > 0 as the program's comparison decides it.
GtZero(x) ==
    \/ x.k = "num" /\ RPos(x.v)
    \/ x.k = "pos"
    \/ x = PosInf

\* The metrics of the completed runs.
CompletedMetrics == {outcomes[i].metrics : i \in {j \in 1..Len(outcomes) : outcomes[j].error = ""}}

\* C27: for any ledger, two-row ledgers included, the reported Calmar ratio
\* is CAGR / max_drawdown whenever max_drawdown > 0, the Sharpe ratio is
\* (CAGR - risk_free_rate * 100) / volatility whenever volatility > 0, and
\* the Sortino ratio the same numerator over the downside deviation whenever
\* that is > 0.
C27_RatiosFromOwnDenominator ==
    \A m \in CompletedMetrics :
        /\ GtZero(m.max_drawdown) =>
               m.calmar_ratio = CalculateCalmarRatio(m.cagr, m.max_drawdown)
        /\ GtZero(m.volatility) =>
               m.sharpe_ratio = ExcessOver(m.cagr, m.volatility)
        /\ GtZero(m.downside_volatility) =>
               m.sortino_ratio = ExcessOver(m.cagr, m.downside_volatility)

(***************************************************************************)
(* rolling_window_analysis on its own.  Its thread goes on with the window  *)
(* generation loop for as long as the loop has a next step.                *)
(***************************************************************************)
RollingOnlyInit == HarnessInit /\ mode = "rolling"

NextRolling == GenerateWindow \/ BatchUnit \/ BatchReturn

SpecRolling == RollingOnlyInit /\ [][NextRolling]_vars /\ WF_vars(GenerateWindow)

\* The windows generated: each window_days long, the starts step_days apart
\* from the first data date on, none ending after the last data date.
WindowsAsConfigured ==
    \A k \in 1..Len(units) :
        /\ Get(units[k].start_date) =
               SetMin(DOMAIN market_data) + (k - 1) * rolling.step_days
        /\ Get(units[k].end_date) - Get(units[k].start_date) = rolling.window_days
        /\ Get(units[k].end_date) <= SetMax(DOMAIN market_data)

\* The engine was run once per window, and the rows are those of the windows
\* that ran through, in window order.
RowsInWindowOrder ==
    /\ Len(attempts) = Len(units)
    /\ \A k \in 1..Len(attempts) : attempts[k].unit = k
    /\ {rows[i].key : i \in 1..Len(rows)} = {k \in 1..Len(attempts) : Ok(attempts[k])}
    /\ \A i \in 1..(Len(rows) - 1) : rows[i].key < rows[i + 1].key

\* C28: rolling_window_analysis terminates for any step_months: the window
\* generation comes to an end, having emitted windows each int(window_years * 365) days
\* long, the starts advancing by step_months * 30 days from the first data
\* date and every window ending on or before the last data date; the engine
\* is run once per window and the rows returned are in window order, the
\* failed windows absent.
C28_RollingTerminates ==
    /\ [](WindowsAsConfigured /\ (hpc = "returned" => RowsInWindowOrder))
    /\ <>(hpc # "windows")

\* The position of the last reset() among the calls, 0 if there is none.
LastReset == SetMax({0} \cup {i \in 1..Len(calls) : IsReset(calls[i])})

\* The decisions a newly constructed instance of the same parameters gives
\* to the inputs of the calls from position first on.
NewInstanceDecisions(first) ==
    LET n == Len(calls) - first + 1
        run[i \in 0..n] ==
            IF i = 0
            THEN [decision |-> NeutralDecision, state |-> FreshState]
            ELSE Decide(strategy, run[i - 1].state, ROne, first + i - 1, <<>>,
                        calls[first + i - 1].portfolio_state)
    IN  [i \in 1..n |-> run[i].decision]

\* C29: after reset(), a profit-taking instance with any history of decide
\* calls, sells included, returns for every sequence of decide inputs the
\* decisions a newly constructed instance of the same parameters returns.
C29_ResetAsNew ==
    LastReset > 0 =>
        \A fresh \in {NewInstanceDecisions(LastReset + 1)} :
            \A i \in 1..(Len(calls) - LastReset) :
                calls[LastReset + i].decision = fresh[i]

\* A sell, a reset() within its cooldown, and a sell in the very next call.
C29_Witness ==
    /\ Len(calls) >= 3
    /\ strategy.params.cooldown_periods = 3
    /\ ~IsReset(calls[Len(calls) - 2]) /\ IsSell(calls[Len(calls) - 2])
    /\ IsReset(calls[Len(calls) - 1])
    /\ calls[Len(calls) - 1].before.periods_since_sell = Some(0)
    /\ ~IsReset(calls[Len(calls)]) /\ IsSell(calls[Len(calls)])

(***************************************************************************)
(* What a caller's objects are after the calls it makes: the price series  *)
(* and the strategy instance it hands to run_backtest, the results it got  *)
(* back, and the base_params mapping it hands to a sweep.  A result's      *)
(* strategy_params is a mapping of its own or the instance's own mapping.  *)
(***************************************************************************)
\* The result holds the mapping the instance holds.
SameMapping(params) == [shared |-> TRUE, value |-> params]

\* strategy.params.copy()
SnapshotOf(params) == [shared |-> FALSE, value |-> params]

\* result.strategy_params as the caller reads it now.
StrategyParamsOf(result) ==
    IF result.strategy_params.shared THEN strategy.params
    ELSE result.strategy_params.value

\* {**defaults}, then update(overrides)
Updated(defaults, overrides) ==
    [k \in DOMAIN defaults \cup DOMAIN overrides |->
        IF k \in DOMAIN overrides THEN overrides[k] ELSE defaults[k]]

\* dict(base_params) if base_params else {}
SweepParams(given) ==
    IF IsNone(given) \/ DOMAIN Get(given) = {} THEN <<>> ELSE Get(given)

\* The caller's mapping after an iteration of a sweep: the swept value is
\* written to the iteration's own dict.
CallerParamsAfter(given, param_name, value) == given

FrameStrategies ==
    {ProfitTakingStrategy(ProfitTakingDefaults),
     TrendFilterStrategy([TrendFilterDefaults EXCEPT !.ma_period = 1])}

BaseParamsChoices ==
    {None, Some(<<>>), Some([cooldown_periods |-> 2]),
     Some([profit_threshold |-> <<1, 2>>, cooldown_periods |-> 2])}

\* The values set_param is called with.
SetParamChoices ==
    [profit |-> [key |-> "cooldown_periods", value |-> 1],
     trend |-> [key |-> "below_multiplier", value |-> RZero]]

FrameInit ==
    /\ strategy \in FrameStrategies
    /\ strategy_state = FreshState
    /\ market_data \in {HarnessData, GappyData, ShortData}
    /\ has_close = TRUE
    /\ start_date \in StartDates
    /\ end_date \in EndDates
    /\ frequency \in HarnessFrequencies
    /\ EngineIdle
    /\ NoDirectCalls
    /\ NoOperation
    /\ base_params \in BaseParamsChoices

\* A run_backtest call with the caller's series and instance, from call to
\* return or raise.  The run works on market_data.copy().
FrameRun ==
    /\ Len(outcomes) < MaxRuns
    /\ \E r \in {RunBacktestCall(strategy, strategy_state, market_data, has_close,
                                  start_date, end_date, frequency)} :
          /\ strategy_state' = r.state
          /\ outcomes' = Append(outcomes,
                                [error |-> r.error, metrics |-> r.metrics,
                                 ran_with |-> strategy.params,
                                 strategy_params |-> SnapshotOf(strategy.params)])
    /\ UNCHANGED <<strategy, market_data, has_close, start_date, end_date, frequency,
                   pc, error, investment_dates, total_shares, total_cost, transactions>>
    /\ UNCHANGED <<decideVars, harnessVars>>

\* strategy.set_param(key, value)
SetParam ==
    /\ strategy.params[SetParamChoices[strategy.kind].key]
           # SetParamChoices[strategy.kind].value
    /\ strategy' = [strategy EXCEPT !.params[SetParamChoices[strategy.kind].key] =
                                        SetParamChoices[strategy.kind].value]
    /\ UNCHANGED <<market_data, has_close, start_date, end_date, frequency,
                   strategy_state, engineLocals>>
    /\ UNCHANGED <<decideVars, harnessVars>>

\* One iteration of single_param_sweep over profit_threshold for the
\* profit-taking class: the iteration's dict, the instance made of it, its
\* run and its row.
SweepIteration ==
    /\ completed < MaxAxis
    /\ \E value \in {<<3, 10>>, <<1, 5>>} :
          \E instance \in {ProfitTakingStrategy(
                               Updated(ProfitTakingDefaults,
                                       Updated(SweepParams(base_params),
                                               [profit_threshold |-> value])))} :
              \E r \in {RunBacktestCall(instance, FreshState, market_data, has_close,
                                        start_date, end_date, frequency)} :
                  /\ rows' = Append(rows, IF r.error = ""
                                          THEN ResultRow(completed + 1, r.metrics)
                                          ELSE ErrorRow(completed + 1, r.error))
                  /\ completed' = completed + 1
                  /\ base_params' = CallerParamsAfter(base_params, "profit_threshold",
                                                      value)
    /\ UNCHANGED <<engineVars, decideVars, mode, units, hpc, attempts, printed, matrix,
                   progress, returned, metric, comparison, rolling, mc, sims>>

NextFrame == FrameRun \/ SetParam \/ SweepIteration

SpecFrame == FrameInit /\ [][NextFrame]_vars

\* Every result's strategy_params reads as the parameters its run was made
\* with.
SnapshotsKept ==
    \A i \in 1..Len(outcomes) :
        outcomes[i].error = "" => StrategyParamsOf(outcomes[i]) = outcomes[i].ran_with

\* C30: run_backtest leaves its inputs as they were: the caller's price
\* series is not modified, the strategy's parameter mapping is modified
\* neither by the run nor by decide, and the strategy_params of a result is
\* a snapshot a later set_param on the strategy does not alter; the sweeps
\* do not modify the caller's base_params.
C30_InputsUnchanged ==
    [][/\ market_data' = market_data
       /\ base_params' = base_params
       /\ outcomes' # outcomes => strategy' = strategy
       /\ rows' # rows => strategy' = strategy
       /\ SnapshotsKept']_vars

\* A result of a run made before set_param changed the instance's
\* parameters, and a sweep iteration made with a base_params mapping.
C30_Witness ==
    /\ Len(outcomes) >= 1
    /\ outcomes[1].error = ""
    /\ outcomes[1].ran_with # strategy.params
    /\ StrategyParamsOf(outcomes[1]) = outcomes[1].ran_with
    /\ Len(rows) >= 1
    /\ base_params = Some([cooldown_periods |-> 2])

====
